---- MODULE Spec2Model ----
(***************************************************************************)
(* Team report of multi-agent-spec (sdk/go): the status rollup, the DAG   *)
(* ordering of the sections (TeamReport.SortByDAG) and the box renderer.  *)
(*                                                                         *)
(* Strings are sequences of Unicode code points.  Go compares strings     *)
(* byte-wise; on UTF-8 that is the lexicographic order of the code points. *)
(***************************************************************************)
EXTENDS Integers, Sequences, FiniteSets, TLC

\* ------------------------------------------------------------------------
\* Bounds of the model
\* ------------------------------------------------------------------------
MaxTeams == 3

MaxEdges == 3

MaxTasks == 3

\* Most things (texts, tags, sections, task results, blocks) put into a report
\* that is rendered.
MaxItems == 3

\* The section ids of the model: "a", "ab", "b".
Ids == {<<97>>, <<97, 98>>, <<98>>}

\* ------------------------------------------------------------------------
\* Strings
\* ------------------------------------------------------------------------
Min(a, b) == IF a < b THEN a ELSE b

Max(a, b) == IF a > b THEN a ELSE b

\* Go's s < t on strings.
StrLess(s, t) ==
    \E i \in 1..(Len(t)) :
        /\ \A k \in 1..(i - 1) : k <= Len(s) /\ s[k] = t[k]
        /\ \/ i > Len(s)
           \/ i <= Len(s) /\ s[i] < t[i]

SeqsUpTo(S, n) == UNION {[1..k -> S] : k \in 0..n}

Range(s) == {s[i] : i \in 1..Len(s)}

Swap(s, i, j) == [s EXCEPT ![i] = s[j], ![j] = s[i]]

\* sortStrings: for i, for j > i, swap s[i] and s[j] when s[j] < s[i].
RECURSIVE sortInner(_, _, _)
sortInner(s, i, j) ==
    IF j > Len(s) THEN s
    ELSE sortInner(IF StrLess(s[j], s[i]) THEN Swap(s, i, j) ELSE s, i, j + 1)

RECURSIVE sortOuter(_, _)
sortOuter(s, i) ==
    IF i > Len(s) - 1 THEN s
    ELSE sortOuter(sortInner(s, i, i + 1), i + 1)

sortStrings(s) == sortOuter(s, 1)

\* ------------------------------------------------------------------------
\* The report
\* ------------------------------------------------------------------------
\* Status: "GO", "WARN", "NO-GO", "SKIP".
StatusGo == <<71, 79>>

StatusWarn == <<87, 65, 82, 78>>

StatusNoGo == <<78, 79, 45, 71, 79>>

StatusSkip == <<83, 75, 73, 80>>

Statuses == {StatusGo, StatusWarn, StatusNoGo, StatusSkip}

\* A TaskResult with its zero-valued texts.
TaskResult(status) == [ID |-> <<>>, Status |-> status, Severity |-> <<>>, Detail |-> <<>>]

\* A TeamSection: the fields the ordering reads (ID, DependsOn), Name, which
\* tells two sections with the same id apart, Status, and the zero values of
\* what else the renderer prints.
TeamSection(id, name, deps, status) ==
    [ID |-> id, Name |-> name, DependsOn |-> deps, Status |-> status,
     Verdict |-> <<>>, Tasks |-> <<>>, ContentBlocks |-> <<>>, Narrative |-> <<>>]

\* A NarrativeSection.  TeamSection.Narrative is a pointer: no element for nil,
\* one element for a section it points to.
NarrativeSection(problem, analysis, recommendation) ==
    [Problem |-> problem, Analysis |-> analysis, Recommendation |-> recommendation]

\* The name given to the n-th section appended: "1", "2", ...
NameOf(n) == <<48 + n>>

IDsOf(ts) == [i \in 1..Len(ts) |-> ts[i].ID]

RECURSIVE SumLen(_, _)
SumLen(ts, i) == IF i > Len(ts) THEN 0 ELSE Len(ts[i].DependsOn) + SumLen(ts, i + 1)

\* Number of depends_on entries in a list of sections.
EdgeCount(ts) == SumLen(ts, 1)

VARIABLES
    teams,       \* report.Teams
    pc,          \* "build" while the report is put together, "sort" inside a SortByDAG
                 \* that runs step by step, "done" once the report was sorted
    processed,   \* the ids with processed[id] = true when the last SortByDAG returned
    input,       \* r.Teams as it was when the last SortByDAG began
    resort,      \* the last SortByDAG began on a report that had been sorted
    tasks,       \* AgentResult.Tasks of the agent result being built
    call,        \* the rollup that returned last: "ComputeStatus", "ComputeOverallStatus", "none"
    ret,         \* the Status it returned
    report,      \* the fields of the TeamReport other than Teams
    out,         \* the lines written by the last Renderer.Render (none before it)
    narr,        \* the text written by the last NarrativeRenderer.Render (none before it)
    mem,         \* r.Teams of the two reports handed to goroutines: the slice header in memory
    given,       \* the sections of the two reports as they were handed over
    of,          \* the report each of the two goroutines calls Render on
    at,          \* where each goroutine is in its Render call
    loc,         \* the locals of each goroutine's SortByDAG
    outs,        \* the lines each goroutine's Renderer has written
    flags,       \* the flags and arguments of a `mas render` invocation (none before it)
    step,        \* where the invocation is in runRender and main
    data,        \* the input the invocation reads
    err,         \* the error runRender returns ("" for nil)
    code,        \* the exit code of the process (-1 while it runs)
    log,         \* what the invocation did so far and how each operation ended
    kahn,        \* the locals of a SortByDAG call in progress, step by step
    wrap         \* the text being put together, then the wrapText call made on it

vars == <<teams, pc, processed, input, resort, tasks, call, ret, report, out, narr,
          mem, given, of, at, loc, outs, flags, step, data, err, code, log, kahn,
          wrap>>

cliVars == <<flags, step, data, err, code, log>>

raceVars == <<mem, given, of, at, loc, outs>>

boxVars == <<report, out, narr>>

rollupVars == <<tasks, call, ret>>

sortVars == <<pc, processed, input, resort>>

\* A Go map read: the zero value for a missing key.
Get(m, k, zero) == IF k \in DOMAIN m THEN m[k] ELSE zero

NoMap == [k \in {} |-> 0]

\* ------------------------------------------------------------------------
\* Status rollup
\* ------------------------------------------------------------------------
\* The loop of computeStatusFromTasks over tasks[i..]: the three flags.
RECURSIVE ScanTasks(_, _, _)
ScanTasks(ts, i, f) ==
    IF i > Len(ts) THEN f
    ELSE ScanTasks(ts, i + 1,
            [hasNoGo    |-> f.hasNoGo \/ ts[i].Status = StatusNoGo,
             hasWarn    |-> f.hasWarn \/ ts[i].Status = StatusWarn,
             allSkipped |-> f.allSkipped /\ ts[i].Status = StatusSkip])

\* computeStatusFromTasks with the WARN test before the NO-GO test.
computeStatusWarnFirst(ts) ==
    LET f == ScanTasks(ts, 1, [hasNoGo |-> FALSE, hasWarn |-> FALSE, allSkipped |-> TRUE])
    IN  IF f.allSkipped THEN StatusSkip
        ELSE IF f.hasWarn THEN StatusWarn
        ELSE IF f.hasNoGo THEN StatusNoGo
        ELSE StatusGo

computeStatusFromTasks(ts) ==
    LET f == ScanTasks(ts, 1, [hasNoGo |-> FALSE, hasWarn |-> FALSE, allSkipped |-> TRUE])
    IN  IF f.allSkipped THEN StatusSkip
        ELSE IF f.hasNoGo THEN StatusNoGo
        ELSE IF f.hasWarn THEN StatusWarn
        ELSE StatusGo

\* The loop of ComputeOverallStatus over r.Teams[i..]: the two flags.
RECURSIVE ScanTeams(_, _, _)
ScanTeams(ts, i, f) ==
    IF i > Len(ts) THEN f
    ELSE ScanTeams(ts, i + 1,
            [hasNoGo |-> f.hasNoGo \/ ts[i].Status = StatusNoGo,
             hasWarn |-> f.hasWarn \/ ts[i].Status = StatusWarn])

ComputeOverallStatusOf(ts) ==
    LET f == ScanTeams(ts, 1, [hasNoGo |-> FALSE, hasWarn |-> FALSE])
    IN  IF f.hasNoGo THEN StatusNoGo
        ELSE IF f.hasWarn THEN StatusWarn
        ELSE StatusGo

\* ------------------------------------------------------------------------
\* SortByDAG, part 1: the maps built before the queue loop
\* ------------------------------------------------------------------------
\* The last index of a section with the id, from i on (0 when there is none).
RECURSIVE LastIndex(_, _, _)
LastIndex(ts, id, i) ==
    IF i = 0 \/ ts[i].ID = id THEN i ELSE LastIndex(ts, id, i - 1)

\* idToTeam[id] = &r.Teams[i]: a later section with the same id overwrites.
BuildIdToTeam(ts, ids) == [id \in ids |-> LastIndex(ts, id, Len(ts))]

\* ExistingDeps without the `exists` test: every entry counts.
AllDeps(deps, ids) == Len(deps)

\* Number of entries of deps that name an existing id.
ExistingDeps(deps, ids) == Cardinality({j \in 1..Len(deps) : deps[j] \in ids})

RECURSIVE SumIn(_, _, _, _)
SumIn(ts, ids, id, i) ==
    IF i > Len(ts) THEN 0
    ELSE (IF ts[i].ID = id THEN ExistingDeps(ts[i].DependsOn, ids) ELSE 0)
         + SumIn(ts, ids, id, i + 1)

\* BuildInDegree with the edge counted at the wrong end: inDegree[dep]++.
BuildInDegreeOfDependency(ts, ids) ==
    [id \in ids |->
        Cardinality(UNION {{<<i, j>> : j \in {k \in 1..Len(ts[i].DependsOn) :
                                                  ts[i].DependsOn[k] = id}} :
                           i \in 1..Len(ts)})]

\* inDegree[r.Teams[i].ID]++ for every dependency that exists.
BuildInDegree(ts, ids) == [id \in ids |-> SumIn(ts, ids, id, 1)]

\* The existing edges <<dep, id>> in the order the loops visit them.
RECURSIVE EdgesFrom(_, _, _)
EdgesFrom(ts, ids, i) ==
    IF i > Len(ts) THEN <<>>
    ELSE LET kept == SelectSeq(ts[i].DependsOn, LAMBDA d : d \in ids)
         IN  [j \in 1..Len(kept) |-> <<kept[j], ts[i].ID>>] \o EdgesFrom(ts, ids, i + 1)

\* downstream[dep] = append(downstream[dep], r.Teams[i].ID)
BuildDownstream(ts, ids) ==
    LET edges == EdgesFrom(ts, ids, 1)
    IN  [dep \in {edges[k][1] : k \in 1..Len(edges)} |->
            LET mine == SelectSeq(edges, LAMBDA e : e[1] = dep)
            IN  [k \in 1..Len(mine) |-> mine[k][2]]]

\* BuildQueue without the sortStrings call.
BuildQueueUnsorted(ts, deg) == IDsOf(SelectSeq(ts, LAMBDA t : deg[t.ID] = 0))

\* The ids with in-degree zero, in input order, then sorted.
BuildQueue(ts, deg) ==
    sortStrings(IDsOf(SelectSeq(ts, LAMBDA t : deg[t.ID] = 0)))

\* ------------------------------------------------------------------------
\* SortByDAG, part 2: one iteration of the queue loop
\* ------------------------------------------------------------------------
\* for _, downID := range downstream[id] { inDegree[downID]--; if 0, ready }
RECURSIVE Release(_, _, _, _)
Release(down, k, deg, ready) ==
    IF k > Len(down) THEN [inDegree |-> deg, newlyReady |-> ready]
    ELSE LET d    == down[k]
             deg1 == [deg EXCEPT ![d] = @ - 1]
         IN  Release(down, k + 1, deg1, IF deg1[d] = 0 THEN Append(ready, d) ELSE ready)

\* The loop state is the record of the locals.
KahnState(ts) ==
    LET ids == Range(IDsOf(ts))
        deg == BuildInDegree(ts, ids)
    IN  [idToTeam   |-> BuildIdToTeam(ts, ids),
         inDegree   |-> deg,
         downstream |-> BuildDownstream(ts, ids),
         queue      |-> BuildQueue(ts, deg),
         sorted     |-> <<>>,
         processed  |-> {}]

\* Enqueue that sorts the whole queue, not only the newly ready ids.
EnqueueResorted(q, newlyReady) == sortStrings(q \o newlyReady)

\* sortStrings(newlyReady); queue = append(queue, newlyReady...)
Enqueue(q, newlyReady) == q \o sortStrings(newlyReady)

\* KahnStep whose `continue` comes before the dequeue.
KahnStepKeepsHead(ts, st) ==
    LET id == Head(st.queue)
        q1 == Tail(st.queue)
    IN  IF id \in st.processed THEN st
        ELSE LET rel == Release(Get(st.downstream, id, <<>>), 1, st.inDegree, <<>>)
             IN  [st EXCEPT !.queue     = Enqueue(q1, rel.newlyReady),
                            !.processed = @ \cup {id},
                            !.sorted    = Append(@, ts[st.idToTeam[id]]),
                            !.inDegree  = rel.inDegree]

KahnStep(ts, st) ==
    LET id == Head(st.queue)
        q1 == Tail(st.queue)
    IN  IF id \in st.processed THEN [st EXCEPT !.queue = q1]
        ELSE LET rel == Release(Get(st.downstream, id, <<>>), 1, st.inDegree, <<>>)
             IN  [st EXCEPT !.queue     = Enqueue(q1, rel.newlyReady),
                            !.processed = @ \cup {id},
                            !.sorted    = Append(@, ts[st.idToTeam[id]]),
                            !.inDegree  = rel.inDegree]

\* ------------------------------------------------------------------------
\* SortByDAG, part 3: the sections never emitted, in input order
\* ------------------------------------------------------------------------
Remaining(ts, done) == SelectSeq(ts, LAMBDA t : t.ID \notin done)

\* Finish without the loop over the remaining sections.
FinishEmittedOnly(ts, st) == st.sorted

Finish(ts, st) == st.sorted \o Remaining(ts, st.processed)

RECURSIVE KahnRun(_, _)
KahnRun(ts, st) == IF st.queue = <<>> THEN st ELSE KahnRun(ts, KahnStep(ts, st))

\* The states of the locals at the head of the loop, first to last.
RECURSIVE KahnTrace(_, _)
KahnTrace(ts, st) ==
    IF st.queue = <<>> THEN <<st>> ELSE <<st>> \o KahnTrace(ts, KahnStep(ts, st))

\* SortByDAG: the new r.Teams and the processed map at return.  A report of at
\* most one section returns at once.
SortResult(ts) ==
    IF Len(ts) <= 1 THEN [teams |-> ts, processed |-> {}]
    ELSE LET st == KahnRun(ts, KahnState(ts))
         IN  [teams |-> Finish(ts, st), processed |-> st.processed]

\* SortByDAG as a function of r.Teams.
SortedTeams(ts) == SortResult(ts).teams

\* ------------------------------------------------------------------------
\* Text in the box renderer.  A string is the sequence of runes that a range
\* loop over it reads; a byte cut off its rune reads as U+FFFD.
\* ------------------------------------------------------------------------
boxWidth == 78

\* strings.Repeat of a string of one rune.
Repeat(c, n) == [i \in 1..n |-> c]

\* Number of bytes of a rune in UTF-8.
RuneLen(c) == IF c < 128 THEN 1 ELSE IF c < 2048 THEN 2 ELSE IF c < 65536 THEN 3 ELSE 4

\* len(s): the bytes of the string, one for every rune and one more for
\* every size the rune goes beyond.
ByteLen(s) ==
    Len(s) + Cardinality({i \in 1..Len(s) : s[i] >= 128})
           + Cardinality({i \in 1..Len(s) : s[i] >= 2048})
           + Cardinality({i \in 1..Len(s) : s[i] >= 65536})

\* s[:n], for n <= len(s): the runes that end within n bytes, then the bytes
\* of the rune that is cut, each of which reads as U+FFFD.
Prefix(s, n) ==
    LET whole == {k \in 0..Min(n, Len(s)) : ByteLen(SubSeq(s, 1, k)) <= n}
        k     == CHOOSE x \in whole : \A y \in whole : y <= x
        head  == SubSeq(s, 1, k)
    IN  head \o Repeat(65533, n - ByteLen(head))

\* The verb %-ns of fmt: spaces on the right up to n runes.
PadRight(s, n) == s \o Repeat(32, Max(0, n - Len(s)))

\* strings.Join.
RECURSIVE Join(_, _)
Join(parts, sep) ==
    IF parts = <<>> THEN <<>>
    ELSE IF Len(parts) = 1 THEN parts[1]
    ELSE parts[1] \o sep \o Join(Tail(parts), sep)

\* unicode.IsSpace on the runes below U+0100.
IsSpace(c) == c \in {9, 10, 11, 12, 13, 32, 133, 160}

\* strings.Fields: the maximal runs of runes that are not white space, from
\* the first to the last.
Fields(s) ==
    LET starts == {i \in 1..Len(s) : ~IsSpace(s[i]) /\ (i = 1 \/ IsSpace(s[i - 1]))}
        ends   == {i \in 1..Len(s) : ~IsSpace(s[i]) /\ (i = Len(s) \/ IsSpace(s[i + 1]))}
        nth(S, k) == CHOOSE x \in S : Cardinality({y \in S : y < x}) = k - 1
    IN  [k \in 1..Cardinality(starts) |-> SubSeq(s, nth(starts, k), nth(ends, k))]

\* Columns of a rune: 2 in U+1F300..U+1FAFF and in U+2600..U+27BF, else 1.
RuneWidth(c) ==
    IF c >= 127744 /\ c <= 129791 THEN 2
    ELSE IF c >= 9728 /\ c <= 10175 THEN 2
    ELSE 1

\* The sum of the columns of the runes.
visualLength(s) == Len(s) + Cardinality({i \in 1..Len(s) : RuneWidth(s[i]) = 2})

\* Status.Icon.
Icon(s) ==
    IF s = StatusGo THEN <<128994>>
    ELSE IF s = StatusWarn THEN <<128993>>
    ELSE IF s = StatusNoGo THEN <<128308>>
    ELSE IF s = StatusSkip THEN <<9898>>
    ELSE <<63>>

\* ------------------------------------------------------------------------
\* The report outside its sections, and the content blocks
\* ------------------------------------------------------------------------
\* The zero TeamReport, Teams apart.  GeneratedAt is the date of the zero
\* time.Time.
TeamReport ==
    [Title |-> <<>>, Project |-> <<>>, Version |-> <<>>, Target |-> <<>>, Phase |-> <<>>,
     Tags |-> NoMap, SummaryBlocks |-> <<>>, FooterBlocks |-> <<>>,
     Summary |-> <<>>, Conclusion |-> <<>>, Status |-> <<>>,
     GeneratedAt |-> [Year |-> 1, Month |-> 1, Day |-> 1]]

ContentBlockKVPairs == "kv_pairs"

ContentBlockList == "list"

ContentBlockTable == "table"

ContentBlockText == "text"

ContentBlockMetric == "metric"

\* The zero ContentBlock of a type.
ContentBlock(type) ==
    [Type |-> type, Title |-> <<>>, Pairs |-> <<>>, Items |-> <<>>, Headers |-> <<>>,
     Rows |-> <<>>, Content |-> <<>>, Label |-> <<>>, Value |-> <<>>, Status |-> <<>>,
     Target |-> <<>>]

KVPair(key, value, icon) == [Key |-> key, Value |-> value, Icon |-> icon]

ListItem(text, icon, status) == [Text |-> text, Icon |-> icon, Status |-> status]

NewKVPairsBlock(title, pairs) ==
    [ContentBlock(ContentBlockKVPairs) EXCEPT !.Title = title, !.Pairs = pairs]

NewListBlock(title, items) ==
    [ContentBlock(ContentBlockList) EXCEPT !.Title = title, !.Items = items]

NewTextBlock(title, content) ==
    [ContentBlock(ContentBlockText) EXCEPT !.Title = title, !.Content = content]

NewTableBlock(title, headers, rows) ==
    [ContentBlock(ContentBlockTable) EXCEPT !.Title = title, !.Headers = headers, !.Rows = rows]

NewMetricBlock(label, value, status, target) ==
    [ContentBlock(ContentBlockMetric) EXCEPT
        !.Label = label, !.Value = value, !.Status = status, !.Target = target]

EffectiveTitle(r) == IF r.Title # <<>> THEN r.Title ELSE <<84, 69, 65, 77, 32, 83, 84, 65, 84, 85, 83, 32, 82, 69, 80, 79, 82, 84>>

ListItemEffectiveIcon(li) ==
    IF li.Icon # <<>> THEN li.Icon
    ELSE IF li.Status # <<>> THEN Icon(li.Status)
    ELSE <<>>

IsGo(ts) == \A i \in 1..Len(ts) : ts[i].Status # StatusNoGo

\* "<rocket> TEAM: GO for <version> <rocket>", or the same with the stop sign and NO-GO.
FinalMessage(r, ts) ==
    IF IsGo(ts) THEN <<128640>> \o <<32, 84, 69, 65, 77, 58, 32, 71, 79, 32, 102, 111, 114, 32>> \o r.Version \o <<32, 128640>>
    ELSE <<128721>> \o <<32, 84, 69, 65, 77, 58, 32, 78, 79, 45, 71, 79, 32, 102, 111, 114, 32>> \o r.Version \o <<32, 128721>>

\* ------------------------------------------------------------------------
\* The lines of the box
\* ------------------------------------------------------------------------
header == <<9556>> \o Repeat(9552, boxWidth) \o <<9559>>

separator == <<9568>> \o Repeat(9552, boxWidth) \o <<9571>>

footer == <<9562>> \o Repeat(9552, boxWidth) \o <<9565>>

centerLine(text) ==
    LET visualLen == visualLength(text)
        padding   == Max(0, boxWidth - visualLen)
        left      == padding \div 2
        right     == padding - left
    IN  <<9553>> \o Repeat(32, left) \o text \o Repeat(32, right) \o <<9553>>

paddedLine(text) ==
    LET visualLen == visualLength(text)
        padding   == Max(0, boxWidth - visualLen - 1)
    IN  <<9553, 32>> \o text \o Repeat(32, padding) \o <<9553>>

\* The icon, the name and the status joined by " — ", followed by " — " and
\* team.Verdict when team.Verdict is not empty.
teamHeader(team) ==
    LET icon == Icon(team.Status)
        text == IF team.Verdict # <<>>
                THEN icon \o <<32>> \o team.Name \o <<32, 8212, 32>> \o team.Status
                          \o <<32, 8212, 32>> \o team.Verdict
                ELSE icon \o <<32>> \o team.Name \o <<32, 8212, 32>> \o team.Status
    IN  paddedLine(text)

\* Sprintf("  %-24s %s %-15s %s", id, icon, statusText, detail), padded.
taskLine(task) ==
    LET id         == IF ByteLen(task.ID) > 24
                      THEN Prefix(task.ID, 21) \o <<46, 46, 46>>
                      ELSE task.ID
        icon       == Icon(task.Status)
        statusText == IF task.Severity # <<>>
                      THEN task.Status \o <<32, 91>> \o task.Severity \o <<93>>
                      ELSE task.Status
        maxDetail  == boxWidth - 45
        detail     == IF ByteLen(task.Detail) > maxDetail
                      THEN Prefix(task.Detail, maxDetail - 3) \o <<46, 46, 46>>
                      ELSE task.Detail
        line       == <<32, 32>> \o PadRight(id, 24) \o <<32>> \o icon \o <<32>>
                          \o PadRight(statusText, 15) \o <<32>> \o detail
    IN  paddedLine(line)

finalMessage(r, ts) == centerLine(FinalMessage(r, ts))

\* renderTags without the sortStrings call: the keys as the map yields them.
renderTagsAsYielded(tags, keys) ==
    [i \in 1..Len(keys) |-> paddedLine(<<32, 32>> \o keys[i] \o <<58, 32>> \o tags[keys[i]])]

\* renderTags on the keys in the order the map yields them: "  <key>: <value>".
renderTags(tags, keys) ==
    LET sortedKeys == sortStrings(keys)
    IN  [i \in 1..Len(sortedKeys) |->
            paddedLine(<<32, 32>> \o sortedKeys[i] \o <<58, 32>> \o tags[sortedKeys[i]])]

\* "<icon> <key>: <value>" or "<key>: <value>".
renderKVPairs(pairs) ==
    [i \in 1..Len(pairs) |->
        paddedLine(IF pairs[i].Icon # <<>>
                   THEN pairs[i].Icon \o <<32>> \o pairs[i].Key \o <<58, 32>> \o pairs[i].Value
                   ELSE pairs[i].Key \o <<58, 32>> \o pairs[i].Value)]

\* "<icon> <text>" or "  <text>".
renderList(items) ==
    [i \in 1..Len(items) |->
        LET icon == ListItemEffectiveIcon(items[i])
        IN  paddedLine(IF icon # <<>>
                       THEN icon \o <<32>> \o items[i].Text
                       ELSE <<32, 32>> \o items[i].Text)]

\* The loop of wrapText over words[i..] with the line being filled.
RECURSIVE WrapFrom(_, _, _, _)
WrapFrom(words, i, currentLine, maxWidth) ==
    IF i > Len(words)
    THEN IF currentLine # <<>> THEN <<paddedLine(currentLine)>> ELSE <<>>
    ELSE IF currentLine = <<>> THEN WrapFrom(words, i + 1, words[i], maxWidth)
    ELSE IF ByteLen(currentLine) + 1 + ByteLen(words[i]) <= maxWidth
         THEN WrapFrom(words, i + 1, currentLine \o <<32>> \o words[i], maxWidth)
         ELSE <<paddedLine(currentLine)>> \o WrapFrom(words, i + 1, words[i], maxWidth)

\* wrapText that starts a new line with every word.
wrapTextWordPerLine(content, maxWidth) ==
    LET words == Fields(content)
    IN  [k \in 1..Len(words) |-> paddedLine(words[k])]

wrapText(content, maxWidth) ==
    LET words == Fields(content)
    IN  IF Len(words) = 0 THEN <<>> ELSE WrapFrom(words, 1, <<>>, maxWidth)

\* colWidths[i]: the most bytes of the header and of the cells of column i.
ColWidths(headers, rows) ==
    [i \in 1..Len(headers) |->
        LET lens == {ByteLen(headers[i])}
                        \cup {ByteLen(rows[k][i]) : k \in {j \in 1..Len(rows) : i <= Len(rows[j])}}
        IN  CHOOSE m \in lens : \A l \in lens : l <= m]

\* renderTable that prints of every data row the cells it has.
renderTableOwnCells(headers, rows) ==
    LET colWidths == ColWidths(headers, rows)
        headerRow == paddedLine(Join([i \in 1..Len(headers) |-> PadRight(headers[i], colWidths[i])],
                                     <<32, 9474, 32>>))
        rule      == paddedLine(Join([i \in 1..Len(headers) |-> Repeat(9472, colWidths[i])],
                                     <<9472, 9532, 9472>>))
        dataRow(row) ==
            paddedLine(Join([i \in 1..Min(Len(headers), Len(row)) |-> PadRight(row[i], colWidths[i])],
                            <<32, 9474, 32>>))
    IN  <<headerRow, rule>> \o [k \in 1..Len(rows) |-> dataRow(rows[k])]

\* The header row, the rule, and a row for every data row, short rows filled
\* with empty cells.
renderTable(headers, rows) ==
    LET colWidths == ColWidths(headers, rows)
        headerRow == paddedLine(Join([i \in 1..Len(headers) |-> PadRight(headers[i], colWidths[i])],
                                     <<32, 9474, 32>>))
        rule      == paddedLine(Join([i \in 1..Len(headers) |-> Repeat(9472, colWidths[i])],
                                     <<9472, 9532, 9472>>))
        dataRow(row) ==
            paddedLine(Join([i \in 1..Len(headers) |->
                                PadRight(IF i <= Len(row) THEN row[i] ELSE <<>>, colWidths[i])],
                            <<32, 9474, 32>>))
    IN  <<headerRow, rule>> \o [k \in 1..Len(rows) |-> dataRow(rows[k])]

\* "<icon> <label>: <value>", then " (target: <target>)" when there is a target.
renderMetric(label, value, status, target) ==
    LET text == IF target # <<>>
                THEN Icon(status) \o <<32>> \o label \o <<58, 32>> \o value
                         \o <<32, 40, 116, 97, 114, 103, 101, 116, 58, 32>> \o target \o <<41>>
                ELSE Icon(status) \o <<32>> \o label \o <<58, 32>> \o value
    IN  paddedLine(text)

\* The lines printed for strings.Join(lines, "\n"): no line joins to the empty
\* string, which prints as one empty line.
JoinLines(lines) == IF lines = <<>> THEN << <<>> >> ELSE lines

renderBlock(block) ==
    LET titleLines == IF block.Title # <<>> THEN <<paddedLine(block.Title)>> ELSE <<>>
        bodyLines  ==
            IF block.Type = ContentBlockKVPairs THEN renderKVPairs(block.Pairs)
            ELSE IF block.Type = ContentBlockList THEN renderList(block.Items)
            ELSE IF block.Type = ContentBlockText THEN wrapText(block.Content, boxWidth - 2)
            ELSE IF block.Type = ContentBlockTable THEN renderTable(block.Headers, block.Rows)
            ELSE IF block.Type = ContentBlockMetric
                 THEN <<renderMetric(block.Label, block.Value, block.Status, block.Target)>>
            ELSE <<>>
    IN  JoinLines(titleLines \o bodyLines)

RECURSIVE renderBlocks(_)
renderBlocks(blocks) ==
    IF blocks = <<>> THEN <<>> ELSE renderBlock(Head(blocks)) \o renderBlocks(Tail(blocks))

\* The part of BoxTemplate inside range .Teams, for ts[i..].
RECURSIVE TeamLines(_, _)
TeamLines(ts, i) ==
    IF i > Len(ts) THEN <<>>
    ELSE <<separator, teamHeader(ts[i])>>
         \o [k \in 1..Len(ts[i].Tasks) |-> taskLine(ts[i].Tasks[k])]
         \o (IF Len(ts[i].ContentBlocks) > 0 THEN renderBlocks(ts[i].ContentBlocks) ELSE <<>>)
         \o TeamLines(ts, i + 1)

\* hasSummaryBlocks that never sees a summary block.
hasSummaryBlocksNever(r) == FALSE

hasSummaryBlocks(r) == Len(r.SummaryBlocks) > 0

\* BoxTemplate with the footer blocks before the sections.
renderBoxFooterFirst(r, ts, keys) ==
    <<header, centerLine(EffectiveTitle(r)), separator>>
    \o (IF hasSummaryBlocks(r)
        THEN renderBlocks(r.SummaryBlocks) \o <<separator>>
        ELSE <<paddedLine(<<80, 114, 111, 106, 101, 99, 116, 58, 32>> \o r.Project), paddedLine(<<84, 97, 114, 103, 101, 116, 58, 32, 32>> \o r.Target)>>
             \o (IF Cardinality(DOMAIN r.Tags) > 0
                 THEN <<paddedLine(<<84, 97, 103, 115, 58>>)>> \o renderTags(r.Tags, keys)
                 ELSE <<>>)
             \o <<separator>>)
    \o <<paddedLine(r.Phase)>>
    \o (IF Len(r.FooterBlocks) > 0 THEN <<separator>> \o renderBlocks(r.FooterBlocks) ELSE <<>>)
    \o TeamLines(ts, 1)
    \o <<separator, finalMessage(r, ts), footer>>

\* BoxTemplate executed on the report: the lines of the output.  keys is the
\* order in which the Tags map yields its keys.
renderBox(r, ts, keys) ==
    <<header, centerLine(EffectiveTitle(r)), separator>>
    \o (IF hasSummaryBlocks(r)
        THEN renderBlocks(r.SummaryBlocks) \o <<separator>>
        ELSE <<paddedLine(<<80, 114, 111, 106, 101, 99, 116, 58, 32>> \o r.Project), paddedLine(<<84, 97, 114, 103, 101, 116, 58, 32, 32>> \o r.Target)>>
             \o (IF Cardinality(DOMAIN r.Tags) > 0
                 THEN <<paddedLine(<<84, 97, 103, 115, 58>>)>> \o renderTags(r.Tags, keys)
                 ELSE <<>>)
             \o <<separator>>)
    \o <<paddedLine(r.Phase)>>
    \o TeamLines(ts, 1)
    \o (IF Len(r.FooterBlocks) > 0 THEN <<separator>> \o renderBlocks(r.FooterBlocks) ELSE <<>>)
    \o <<separator, finalMessage(r, ts), footer>>

\* ------------------------------------------------------------------------
\* The narrative renderer: the Markdown text, a new line being the rune 10
\* ------------------------------------------------------------------------
\* statusText that answers with the icon of the status.
statusTextIcon(s) == Icon(s)

statusText(s) ==
    IF s = StatusGo THEN <<80, 65, 83, 83>>
    ELSE IF s = StatusWarn THEN <<87, 65, 82, 78, 73, 78, 71>>
    ELSE IF s = StatusNoGo THEN <<70, 65, 73, 76>>
    ELSE IF s = StatusSkip THEN <<83, 75, 73, 80>>
    ELSE s

hasNarrative(team) ==
    /\ team.Narrative # <<>>
    /\ \/ team.Narrative[1].Problem # <<>>
       \/ team.Narrative[1].Analysis # <<>>
       \/ team.Narrative[1].Recommendation # <<>>

hasSummary(r) == r.Summary # <<>>

hasConclusion(r) == r.Conclusion # <<>>

hasContentBlocks(team) == Len(team.ContentBlocks) > 0

\* The decimal digits of n, with zeros on the left up to width digits.
RECURSIVE Digits(_, _)
Digits(n, width) ==
    IF width <= 1 /\ n < 10 THEN <<48 + n>>
    ELSE Digits(n \div 10, width - 1) \o <<48 + (n % 10)>>

\* time.Time.Format("2006-01-02")
FormatDate(d) == Digits(d.Year, 4) \o <<45>> \o Digits(d.Month, 2) \o <<45>> \o Digits(d.Day, 2)

\* The concatenation of the strings of a list.
RECURSIVE Concat(_)
Concat(parts) == IF parts = <<>> THEN <<>> ELSE Head(parts) \o Concat(Tail(parts))

\* The table of a block: the header row, the rule of "---", and every row
\* joined as it is.
renderTableMD(block) ==
    <<124, 32>> \o Join(block.Headers, <<32, 124, 32>>) \o <<32, 124, 10>>
    \o <<124, 32>> \o Join([i \in 1..Len(block.Headers) |-> <<45, 45, 45>>], <<32, 124, 32>>) \o <<32, 124, 10>>
    \o Concat([k \in 1..Len(block.Rows) |-> <<124, 32>> \o Join(block.Rows[k], <<32, 124, 32>>) \o <<32, 124, 10>>])

renderBlockMD(block) ==
    LET title == IF block.Title # <<>> THEN <<42, 42>> \o block.Title \o <<42, 42, 10, 10>> ELSE <<>>
        body  ==
            IF block.Type = ContentBlockKVPairs
            THEN Concat([i \in 1..Len(block.Pairs) |->
                            <<45, 32, 42, 42>> \o block.Pairs[i].Key \o <<42, 42, 58, 32>>
                                \o block.Pairs[i].Value \o <<10>>])
            ELSE IF block.Type = ContentBlockList
            THEN Concat([i \in 1..Len(block.Items) |-> <<45, 32>> \o block.Items[i].Text \o <<10>>])
            ELSE IF block.Type = ContentBlockText THEN block.Content \o <<10>>
            ELSE IF block.Type = ContentBlockTable THEN renderTableMD(block)
            ELSE IF block.Type = ContentBlockMetric
            THEN <<45, 32, 42, 42>> \o block.Label \o <<42, 42, 58, 32>> \o block.Value
                     \o (IF block.Target # <<>> THEN <<32, 40, 116, 97, 114, 103, 101, 116, 58, 32>> \o block.Target \o <<41>> ELSE <<>>)
                     \o <<32, 8212, 32>> \o statusText(block.Status) \o <<10>>
            ELSE <<>>
    IN  title \o body

renderBlocksMD(blocks) == Join([i \in 1..Len(blocks) |-> renderBlockMD(blocks[i])], <<10, 10>>)

\* The row of a task with the status as it is stored.
TaskRowStoredStatus(task) ==
    <<10>> \o <<124, 32>> \o task.ID \o <<32, 124, 32>> \o task.Status \o <<32, 124, 32>> \o task.Detail \o <<32, 124>>

\* The part of NarrativeTemplate inside range .Tasks: the row of a task.
TaskRowMD(task) ==
    <<10>> \o <<124, 32>> \o task.ID \o <<32, 124, 32>> \o statusText(task.Status) \o <<32, 124, 32>> \o task.Detail \o <<32, 124>>

\* The part of NarrativeTemplate inside range .Teams, for one section.
TeamMD(team) ==
    <<10, 10, 35, 35, 35, 32>> \o team.Name \o <<10, 10, 42, 42, 83, 116, 97, 116, 117, 115, 42, 42, 58, 32>> \o statusText(team.Status)
    \o (IF hasNarrative(team)
        THEN (IF team.Narrative[1].Problem # <<>>
              THEN <<10, 10, 35, 35, 35, 35, 32, 80, 114, 111, 98, 108, 101, 109, 10, 10>> \o team.Narrative[1].Problem ELSE <<>>)
             \o (IF team.Narrative[1].Analysis # <<>>
                 THEN <<10, 10, 35, 35, 35, 35, 32, 65, 110, 97, 108, 121, 115, 105, 115, 10, 10>> \o team.Narrative[1].Analysis ELSE <<>>)
             \o (IF team.Narrative[1].Recommendation # <<>>
                 THEN <<10, 10, 35, 35, 35, 35, 32, 82, 101, 99, 111, 109, 109, 101, 110, 100, 97, 116, 105, 111, 110, 10, 10>> \o team.Narrative[1].Recommendation ELSE <<>>)
        ELSE <<>>)
    \o (IF Len(team.Tasks) > 0
        THEN <<10, 10, 35, 35, 35, 35, 32, 84, 97, 115, 107, 115, 10, 10, 124, 32, 84, 97, 115, 107, 32, 124, 32, 83, 116, 97, 116, 117, 115, 32, 124, 32, 68, 101, 116, 97, 105, 108, 32, 124, 10, 124, 32, 45, 45, 45, 32, 124, 32, 45, 45, 45, 32, 124, 32, 45, 45, 45, 32, 124>> \o Concat([k \in 1..Len(team.Tasks) |-> TaskRowMD(team.Tasks[k])])
        ELSE <<>>)
    \o (IF hasContentBlocks(team) THEN <<10, 10, 35, 35, 35, 35, 32, 68, 101, 116, 97, 105, 108, 115, 10, 10>> \o renderBlocksMD(team.ContentBlocks) ELSE <<>>)

\* NarrativeTemplate executed on the report: the text of the output.
renderNarrative(r, ts) ==
    <<45, 45, 45, 10, 116, 105, 116, 108, 101, 58, 32, 34>> \o EffectiveTitle(r) \o <<34, 10, 100, 97, 116, 101, 58, 32, 34>> \o FormatDate(r.GeneratedAt) \o <<34, 10, 45, 45, 45, 10, 10, 35, 32>>
    \o EffectiveTitle(r) \o <<10, 10, 42, 42, 80, 114, 111, 106, 101, 99, 116, 42, 42, 58, 32>> \o r.Project \o <<10, 42, 42, 86, 101, 114, 115, 105, 111, 110, 42, 42, 58, 32>> \o r.Version
    \o <<10, 42, 42, 80, 104, 97, 115, 101, 42, 42, 58, 32>> \o r.Phase \o <<10, 42, 42, 79, 118, 101, 114, 97, 108, 108, 32, 83, 116, 97, 116, 117, 115, 42, 42, 58, 32>> \o statusText(r.Status)
    \o (IF hasSummary(r) THEN <<10, 10, 35, 35, 32, 69, 120, 101, 99, 117, 116, 105, 118, 101, 32, 83, 117, 109, 109, 97, 114, 121, 10, 10>> \o r.Summary ELSE <<>>)
    \o (IF Len(r.SummaryBlocks) > 0 THEN <<10, 10, 35, 35, 32, 79, 118, 101, 114, 118, 105, 101, 119, 10, 10>> \o renderBlocksMD(r.SummaryBlocks) ELSE <<>>)
    \o <<10, 10, 35, 35, 32, 84, 101, 97, 109, 32, 82, 101, 115, 117, 108, 116, 115>>
    \o Concat([i \in 1..Len(ts) |-> TeamMD(ts[i])])
    \o (IF Len(r.FooterBlocks) > 0 THEN <<10, 10, 35, 35, 32, 65, 99, 116, 105, 111, 110, 32, 73, 116, 101, 109, 115, 10, 10>> \o renderBlocksMD(r.FooterBlocks) ELSE <<>>)
    \o (IF hasConclusion(r) THEN <<10, 10, 35, 35, 32, 67, 111, 110, 99, 108, 117, 115, 105, 111, 110, 10, 10>> \o r.Conclusion ELSE <<>>)
    \o <<10>>

\* ------------------------------------------------------------------------
\* Actions
\* ------------------------------------------------------------------------
Init ==
    /\ teams = <<>>
    /\ pc = "build"
    /\ processed = {}
    /\ input = <<>>
    /\ resort = FALSE
    /\ tasks = <<>>
    /\ call = "none"
    /\ ret = <<>>
    /\ report = TeamReport
    /\ out = <<>>
    /\ narr = <<>>
    /\ mem = <<>>
    /\ given = <<>>
    /\ of = <<>>
    /\ at = <<>>
    /\ loc = <<>>
    /\ outs = <<>>
    /\ flags = <<>>
    /\ step = "shell"
    /\ data = ""
    /\ err = ""
    /\ code = -1
    /\ log = <<>>
    /\ kahn = <<>>
    /\ wrap = [content |-> <<>>, maxWidth |-> 0, lines |-> <<>>, called |-> FALSE]

\* The caller builds the report: report.Teams = append(report.Teams, section).
AppendTeam(id, deps, status) ==
    /\ pc = "build"
    /\ Len(teams) < MaxTeams
    /\ Len(deps) <= MaxEdges - EdgeCount(teams)
    /\ teams' = Append(teams, TeamSection(id, NameOf(Len(teams) + 1), deps, status))
    /\ call' = "none"
    /\ ret' = <<>>
    /\ UNCHANGED <<sortVars, tasks, boxVars, raceVars, cliVars, kahn, wrap>>

\* report.SortByDAG(), on a report just built or on one sorted before.
SortByDAG ==
    /\ pc \in {"build", "done"}
    /\ input' = teams
    /\ resort' = (pc = "done")
    /\ teams' = SortResult(teams).teams
    /\ processed' = SortResult(teams).processed
    /\ pc' = "done"
    /\ UNCHANGED <<rollupVars, boxVars, raceVars, cliVars, kahn, wrap>>

\* The agent result being built gets one more task result.
AppendTask(status) ==
    /\ Len(tasks) < MaxTasks
    /\ tasks' = Append(tasks, TaskResult(status))
    /\ call' = "none"
    /\ ret' = <<>>
    /\ UNCHANGED <<teams, sortVars, boxVars, raceVars, cliVars, kahn, wrap>>

\* AgentResult.ComputeStatus (TeamSection.OverallStatus is the same call).
ComputeStatus ==
    /\ call' = "ComputeStatus"
    /\ ret' = computeStatusFromTasks(tasks)
    /\ UNCHANGED <<teams, sortVars, tasks, boxVars, raceVars, cliVars, kahn, wrap>>

\* TeamReport.ComputeOverallStatus.
ComputeOverallStatus ==
    /\ call' = "ComputeOverallStatus"
    /\ ret' = ComputeOverallStatusOf(teams)
    /\ UNCHANGED <<teams, sortVars, tasks, boxVars, raceVars, cliVars, kahn, wrap>>

\* The ordering: reports built section by section, then sorted, again and again.
Next ==
    \/ \E id \in Ids, deps \in SeqsUpTo(Ids, MaxEdges - EdgeCount(teams)) :
           AppendTeam(id, deps, StatusGo)
    \/ SortByDAG

Spec == Init /\ [][Next]_vars

\* The ordering of a fresh report: built section by section, then sorted once.
SortOnce == pc = "build" /\ SortByDAG

NextOnce ==
    \/ \E id \in Ids, deps \in SeqsUpTo(Ids, MaxEdges - EdgeCount(teams)) :
           AppendTeam(id, deps, StatusGo)
    \/ SortOnce

SpecOnce == Init /\ [][NextOnce]_vars

\* The rollups: task results and section statuses of every kind, then a rollup.
NextStatus ==
    \/ \E s \in Statuses : AppendTask(s)
    \/ \E s \in Statuses : AppendTeam(<<97>>, <<>>, s)
    \/ ComputeStatus
    \/ ComputeOverallStatus

SpecStatus == Init /\ [][NextStatus]_vars

\* ------------------------------------------------------------------------
\* A report put together and rendered
\* ------------------------------------------------------------------------
\* The runes of the texts: "x", and U+1F680, which takes two columns.
Runes == {120, 128640}

\* The lengths of the texts: one rune, half the box, one more than the box.
Lens == {1, boxWidth \div 2, boxWidth + 1}

Texts == {Repeat(c, n) : c \in Runes, n \in Lens}

\* The texts inside blocks and tags: the shortest and the longest of "x".
PlainTexts == {Repeat(120, n) : n \in {1, boxWidth + 1}}

TextFields == {"Title", "Project", "Version", "Target", "Phase"}

\* The texts of a report that only the narrative prints.
ProseFields == {"Summary", "Conclusion"}

NarrativeFields == {"Problem", "Analysis", "Recommendation"}

TagKeys == {<<97>>, <<98>>}

\* One block of every type around a text.
BlocksOf(t) ==
    {NewKVPairsBlock(<<>>, <<KVPair(<<107>>, t, <<>>)>>),
     NewListBlock(t, <<ListItem(t, <<>>, StatusGo)>>),
     NewTextBlock(<<>>, t \o <<32>> \o t),
     NewTableBlock(<<>>, <<<<104>>, t>>, <<<<t>>>>),
     NewMetricBlock(<<109>>, t, StatusWarn, <<>>)}

\* The blocks of the model, and the list block without a title and items.
Blocks == UNION {BlocksOf(t) : t \in PlainTexts} \cup {NewListBlock(<<>>, <<>>)}

Filled(t) == IF t = <<>> THEN 0 ELSE 1

RECURSIVE TeamItems(_, _)
TeamItems(ts, i) ==
    IF i > Len(ts) THEN 0
    ELSE 1 + (IF ts[i].Name = NameOf(i) THEN 0 ELSE 1) + Filled(ts[i].Verdict)
           + Len(ts[i].ContentBlocks)
           + Cardinality({<<k, f>> \in (1..Len(ts[i].Narrative)) \X NarrativeFields :
                             ts[i].Narrative[k][f] # <<>>})
           + Len(ts[i].Tasks)
           + Cardinality({<<k, f>> \in (1..Len(ts[i].Tasks)) \X {"ID", "Severity", "Detail"} :
                             ts[i].Tasks[k][f] # <<>>})
           + TeamItems(ts, i + 1)

\* Number of things put into the report so far.
Items ==
    Cardinality({f \in TextFields \cup ProseFields \cup {"Status"} : report[f] # <<>>})
    + (IF report.GeneratedAt = TeamReport.GeneratedAt THEN 0 ELSE 1)
    + Cardinality(DOMAIN report.Tags)
    + Len(report.SummaryBlocks) + Len(report.FooterBlocks) + TeamItems(teams, 1)

Building == pc = "build" /\ Items < MaxItems

\* report.Title = t, and so for Project, Version, Target, Phase.
SetField(f, t) ==
    /\ Building
    /\ report[f] = <<>>
    /\ report' = [report EXCEPT ![f] = t]
    /\ UNCHANGED <<teams, sortVars, rollupVars, out, narr, raceVars, cliVars, kahn, wrap>>

\* report.Tags[k] = v
SetTag(k, v) ==
    /\ Building
    /\ k \notin DOMAIN report.Tags
    /\ report' = [report EXCEPT !.Tags = [x \in DOMAIN @ \cup {k} |-> IF x = k THEN v ELSE @[x]]]
    /\ UNCHANGED <<teams, sortVars, rollupVars, out, narr, raceVars, cliVars, kahn, wrap>>

\* report.Teams = append(report.Teams, section)
AddSection(id, deps, status) ==
    /\ Building
    /\ AppendTeam(id, deps, status)

\* The last section gets a name or a verdict.
SetSectionText(f, t) ==
    /\ Building
    /\ Len(teams) > 0
    /\ teams[Len(teams)][f] = IF f = "Name" THEN NameOf(Len(teams)) ELSE <<>>
    /\ teams' = [teams EXCEPT ![Len(teams)][f] = t]
    /\ UNCHANGED <<sortVars, rollupVars, boxVars, raceVars, cliVars, kahn, wrap>>

\* section.Tasks = append(section.Tasks, task) on the last section.
AddTask(status) ==
    /\ Building
    /\ Len(teams) > 0
    /\ teams' = [teams EXCEPT ![Len(teams)].Tasks = Append(@, TaskResult(status))]
    /\ UNCHANGED <<sortVars, rollupVars, boxVars, raceVars, cliVars, kahn, wrap>>

\* The last task result of the last section gets an id, a severity or a detail.
SetTaskText(f, t) ==
    /\ Building
    /\ Len(teams) > 0
    /\ Len(teams[Len(teams)].Tasks) > 0
    /\ LET n == Len(teams)
           k == Len(teams[n].Tasks)
       IN  /\ teams[n].Tasks[k][f] = <<>>
           /\ teams' = [teams EXCEPT ![n].Tasks[k][f] = t]
    /\ UNCHANGED <<sortVars, rollupVars, boxVars, raceVars, cliVars, kahn, wrap>>

\* A summary block or a footer block more.
AddReportBlock(f, b) ==
    /\ Building
    /\ report' = [report EXCEPT ![f] = Append(@, b)]
    /\ UNCHANGED <<teams, sortVars, rollupVars, out, narr, raceVars, cliVars, kahn, wrap>>

\* A content block more on the last section.
AddContentBlock(b) ==
    /\ Building
    /\ Len(teams) > 0
    /\ teams' = [teams EXCEPT ![Len(teams)].ContentBlocks = Append(@, b)]
    /\ UNCHANGED <<sortVars, rollupVars, boxVars, raceVars, cliVars, kahn, wrap>>

\* The orders in which a map with these keys can yield them.
KeyOrders(K) == {s \in [1..Cardinality(K) -> K] : Range(s) = K}

\* Render that hands the sections to the template as they came.
RenderBoxUnsorted(keys) ==
    /\ pc \in {"build", "done"}
    /\ input' = teams
    /\ resort' = FALSE
    /\ teams' = SortResult(teams).teams
    /\ processed' = SortResult(teams).processed
    /\ pc' = "done"
    /\ out' = renderBox(report, teams, keys)
    /\ UNCHANGED <<rollupVars, report, narr, raceVars, cliVars, kahn, wrap>>

\* Renderer.Render: report.SortByDAG(), then the box template written out.
Render(keys) ==
    /\ pc \in {"build", "done"}
    /\ input' = teams
    /\ resort' = (pc = "done")
    /\ teams' = SortResult(teams).teams
    /\ processed' = SortResult(teams).processed
    /\ pc' = "done"
    /\ out' = renderBox(report, SortResult(teams).teams, keys)
    /\ UNCHANGED <<rollupVars, report, narr, raceVars, cliVars, kahn, wrap>>

NextBox ==
    \/ \E f \in TextFields, t \in Texts : SetField(f, t)
    \/ \E k \in TagKeys, v \in PlainTexts : SetTag(k, v)
    \/ \E id \in TagKeys, deps \in {<<>>, <<<<98>>>>}, s \in {StatusGo, StatusNoGo} :
           AddSection(id, deps, s)
    \/ \E f \in {"Name", "Verdict"}, t \in Texts : SetSectionText(f, t)
    \/ \E s \in Statuses : AddTask(s)
    \/ \E f \in {"ID", "Severity", "Detail"}, t \in Texts : SetTaskText(f, t)
    \/ \E f \in {"SummaryBlocks", "FooterBlocks"}, b \in Blocks : AddReportBlock(f, b)
    \/ \E b \in Blocks : AddContentBlock(b)
    \/ \E keys \in KeyOrders(DOMAIN report.Tags) : Render(keys)

SpecBox == Init /\ [][NextBox]_vars

\* ------------------------------------------------------------------------
\* A report put together and rendered as narrative
\* ------------------------------------------------------------------------
\* The texts of the narrative scenario: "x" and the rocket.
ShortTexts == {Repeat(c, 1) : c \in Runes}

ShortBlocks == UNION {BlocksOf(t) : t \in ShortTexts} \cup {NewListBlock(<<>>, <<>>)}

\* report.Status = s: the stored overall status.
SetStatus(s) ==
    /\ Building
    /\ report.Status = <<>>
    /\ report' = [report EXCEPT !.Status = s]
    /\ UNCHANGED <<teams, sortVars, rollupVars, out, narr, raceVars, cliVars, kahn, wrap>>

\* report.GeneratedAt = the 12th of February 2026.
SetGeneratedAt ==
    /\ Building
    /\ report.GeneratedAt = TeamReport.GeneratedAt
    /\ report' = [report EXCEPT !.GeneratedAt = [Year |-> 2026, Month |-> 2, Day |-> 12]]
    /\ UNCHANGED <<teams, sortVars, rollupVars, out, narr, raceVars, cliVars, kahn, wrap>>

\* The last section gets a part of its narrative prose, and the
\* NarrativeSection with it when it has none.
SetNarrative(f, t) ==
    /\ Building
    /\ Len(teams) > 0
    /\ LET n   == Len(teams)
           old == IF teams[n].Narrative = <<>> THEN NarrativeSection(<<>>, <<>>, <<>>)
                  ELSE teams[n].Narrative[1]
       IN  /\ old[f] = <<>>
           /\ teams' = [teams EXCEPT ![n].Narrative = <<[old EXCEPT ![f] = t]>>]
    /\ UNCHANGED <<sortVars, rollupVars, boxVars, raceVars, cliVars, kahn, wrap>>

\* NarrativeRenderer.Render: report.SortByDAG(), then the narrative template
\* written out.
RenderNarrative ==
    /\ pc \in {"build", "done"}
    /\ input' = teams
    /\ resort' = (pc = "done")
    /\ teams' = SortResult(teams).teams
    /\ processed' = SortResult(teams).processed
    /\ pc' = "done"
    /\ narr' = renderNarrative(report, SortResult(teams).teams)
    /\ UNCHANGED <<rollupVars, report, out, raceVars, cliVars, kahn, wrap>>

NextNarrative ==
    \/ \E f \in (TextFields \ {"Target"}) \cup ProseFields, t \in ShortTexts : SetField(f, t)
    \/ \E s \in Statuses \cup ShortTexts : SetStatus(s)
    \/ SetGeneratedAt
    \/ \E id \in TagKeys, s \in Statuses : AddSection(id, <<>>, s)
    \/ \E t \in ShortTexts : SetSectionText("Name", t)
    \/ \E f \in NarrativeFields, t \in ShortTexts : SetNarrative(f, t)
    \/ \E s \in Statuses \cup ShortTexts : AddTask(s)
    \/ \E f \in {"ID", "Severity", "Detail"}, t \in ShortTexts : SetTaskText(f, t)
    \/ \E f \in {"SummaryBlocks", "FooterBlocks"}, b \in ShortBlocks : AddReportBlock(f, b)
    \/ \E b \in ShortBlocks : AddContentBlock(b)
    \/ RenderNarrative

SpecNarrative == Init /\ [][NextNarrative]_vars

\* ------------------------------------------------------------------------
\* A table block rendered by either renderer
\* ------------------------------------------------------------------------
MaxRows == 2

MaxCols == 2

\* The cells of the tables: the empty string and "x".
Cells == {<<>>, <<120>>}

\* report.SummaryBlocks = []ContentBlock{NewTableBlock("", headers, nil)}
AddTable(headers) ==
    /\ report.SummaryBlocks = <<>>
    /\ AddReportBlock("SummaryBlocks", NewTableBlock(<<>>, headers, <<>>))

\* The data rows tried under n headers: rows of "x" cells, from no cell to one
\* cell more than there are headers, and the row of n empty cells.
RowsFor(n) == {[i \in 1..k |-> <<120>>] : k \in 0..(n + 1)} \cup {[i \in 1..n |-> <<>>]}

\* block.Rows = append(block.Rows, row) on the table of the report.
AddRow(row) ==
    /\ Building
    /\ report.SummaryBlocks # <<>>
    /\ Len(report.SummaryBlocks[1].Rows) < MaxRows
    /\ report' = [report EXCEPT !.SummaryBlocks[1].Rows = Append(@, row)]
    /\ UNCHANGED <<teams, sortVars, rollupVars, out, narr, raceVars, cliVars, kahn, wrap>>

NextTable ==
    \/ \E headers \in SeqsUpTo(Cells, MaxCols) \ {<<>>} : AddTable(headers)
    \/ \E row \in RowsFor(IF report.SummaryBlocks = <<>> THEN 0
                        ELSE Len(report.SummaryBlocks[1].Headers)) : AddRow(row)
    \/ \E keys \in KeyOrders(DOMAIN report.Tags) : Render(keys)
    \/ RenderNarrative

SpecTable == Init /\ [][NextTable]_vars

\* ------------------------------------------------------------------------
\* Sections with dependencies, rendered once by either renderer
\* ------------------------------------------------------------------------
\* Renderer.Render on a report not rendered before.
RenderBoxOnce(keys) == pc = "build" /\ Render(keys)

\* NarrativeRenderer.Render on a report not rendered before.
RenderNarrativeOnce == pc = "build" /\ RenderNarrative

NextRender ==
    \/ \E id \in Ids, deps \in SeqsUpTo(Ids, 1) : AddSection(id, deps, StatusGo)
    \/ \E keys \in KeyOrders(DOMAIN report.Tags) : RenderBoxOnce(keys)
    \/ RenderNarrativeOnce

SpecRender == Init /\ [][NextRender]_vars

\* ------------------------------------------------------------------------
\* Two goroutines that call Renderer.Render at the same time.  A step reads
\* or writes report.Teams once; the slice header is stored word by word, the
\* array with its capacity and the length.
\* ------------------------------------------------------------------------
ZeroSection == TeamSection(<<>>, <<>>, <<>>, <<>>)

\* The slice in memory: the array up to its capacity, and the length.
Slice(ts, cap) == [arr |-> ts \o [i \in 1..Max(0, cap - Len(ts)) |-> ZeroSection], len |-> Len(ts)]

\* A Go map write.
Put(m, k, v) == [x \in DOMAIN m \cup {k} |-> IF x = k THEN v ELSE m[x]]

\* The locals of SortByDAG when the call begins.
Locals ==
    [n |-> 0, i |-> 0, idToTeam |-> NoMap, inDegree |-> NoMap, downstream |-> NoMap,
     queue |-> <<>>, sorted |-> <<>>, processed |-> {}, cap |-> 0, stored |-> {}]

\* The sections of the shared reports.
SectionA == TeamSection(<<97>>, NameOf(1), <<>>, StatusGo)

SectionB == TeamSection(<<98>>, NameOf(2), <<<<97>>>>, StatusGo)

SectionC == TeamSection(<<99>>, NameOf(3), <<>>, StatusWarn)

SectionAOnB == TeamSection(<<97>>, NameOf(1), <<<<98>>>>, StatusGo)

SectionAAgain == TeamSection(<<97>>, NameOf(3), <<>>, StatusNoGo)

\* The reports handed to the goroutines: one section; b before the a it
\* depends on; in order already; an id twice; a cycle before a free section.
SharedReports ==
    {<<SectionA>>,
     <<SectionB, SectionA>>,
     <<SectionA, SectionB>>,
     <<SectionAAgain, SectionB, SectionA>>,
     <<SectionAOnB, SectionB, SectionC>>}

\* The receiver that is the first report, whatever report the call was given.
ReceiverFirst(g) == 1

\* The report r of the calls r.Render(report) and report.SortByDAG() of g.
Receiver(g) == of[g]

\* go renderer.Render(report) twice: on the same report, or on two reports.
Share(ts1, ts2, o) ==
    /\ mem = <<>>
    /\ pc = "build" /\ teams = <<>>
    /\ mem' = <<Slice(ts1, Len(ts1)), Slice(ts2, Len(ts2))>>
    /\ given' = <<ts1, ts2>>
    /\ of' = o
    /\ at' = <<"len", "len">>
    /\ loc' = <<Locals, Locals>>
    /\ outs' = <<<<>>, <<>>>>
    /\ UNCHANGED <<teams, sortVars, rollupVars, boxVars, cliVars, kahn, wrap>>

\* r.Teams[i] cannot be read: the index is out of range, or beyond the array.
Faulty(h, i) == i > h.len \/ i > Len(h.arr)

\* if len(r.Teams) <= 1 { return }
CheckLen(g) ==
    /\ at # <<>>
    /\ at[g] = "len"
    /\ at' = [at EXCEPT ![g] = IF mem[Receiver(g)].len <= 1 THEN "execute" ELSE "idToTeam"]
    /\ UNCHANGED <<mem, given, of, loc, outs, teams, sortVars, rollupVars, boxVars, cliVars, kahn, wrap>>

\* idToTeam[id] = &r.Teams[i]; inDegree[id] = 0
IdToTeamBody(l, t) == [l EXCEPT !.idToTeam = Put(@, t.ID, t), !.inDegree = Put(@, t.ID, 0)]

\* inDegree[r.Teams[i].ID]++ for every dependency in idToTeam
InDegreeBody(l, t) ==
    [l EXCEPT !.inDegree = Put(@, t.ID, Get(@, t.ID, 0)
                                           + ExistingDeps(t.DependsOn, DOMAIN l.idToTeam))]

\* downstream[dep] = append(downstream[dep], id) for the dependencies from the k-th on.
RECURSIVE AppendDownstream(_, _, _, _, _)
AppendDownstream(down, deps, k, ids, id) ==
    IF k > Len(deps) THEN down
    ELSE AppendDownstream(IF deps[k] \in ids
                          THEN Put(down, deps[k], Append(Get(down, deps[k], <<>>), id))
                          ELSE down,
                          deps, k + 1, ids, id)

DownstreamBody(l, t) ==
    [l EXCEPT !.downstream = AppendDownstream(@, t.DependsOn, 1, DOMAIN l.idToTeam, t.ID)]

\* if inDegree[r.Teams[i].ID] == 0 { queue = append(queue, r.Teams[i].ID) }
QueueBody(l, t) ==
    IF Get(l.inDegree, t.ID, 0) = 0 THEN [l EXCEPT !.queue = Append(@, t.ID)] ELSE l

\* if !processed[r.Teams[i].ID] { sorted = append(sorted, r.Teams[i]) }
RemainingBody(l, t) ==
    IF t.ID \notin l.processed THEN [l EXCEPT !.sorted = Append(@, t)] ELSE l

\* The body of the loop of a phase on the section read.
LoopBody(phase, l, t) ==
    CASE phase = "idToTeam"   -> IdToTeamBody(l, t)
      [] phase = "inDegree"   -> InDegreeBody(l, t)
      [] phase = "downstream" -> DownstreamBody(l, t)
      [] phase = "queue"      -> QueueBody(l, t)
      [] phase = "remaining"  -> RemainingBody(l, t)

\* What follows the loop before the next: sortStrings(queue) after the queue loop.
LoopEnd(phase, l) == IF phase = "queue" THEN [l EXCEPT !.queue = sortStrings(@)] ELSE l

\* The phase after the loop of a phase.
NextPhase(phase) ==
    CASE phase = "idToTeam"   -> "inDegree"
      [] phase = "inDegree"   -> "downstream"
      [] phase = "downstream" -> "queue"
      [] phase = "queue"      -> "kahn"
      [] phase = "remaining"  -> "store"

\* A step of a loop `for i := range r.Teams`: the range expression read when
\* the loop begins, or one turn of the body, which reads r.Teams[i].
RangeStep(g, phase) ==
    LET h == mem[Receiver(g)]
        l == loc[g]
    IN  IF l.i = 0
        THEN IF h.len = 0
             THEN /\ at' = [at EXCEPT ![g] = NextPhase(phase)]
                  /\ loc' = [loc EXCEPT ![g] = LoopEnd(phase, l)]
             ELSE /\ at' = at
                  /\ loc' = [loc EXCEPT ![g] = [l EXCEPT !.n = h.len, !.i = 1]]
        ELSE IF Faulty(h, l.i)
        THEN /\ at' = [at EXCEPT ![g] = "panic"]
             /\ loc' = loc
        ELSE LET l1 == LoopBody(phase, l, h.arr[l.i])
             IN  IF l.i = l.n
                 THEN /\ at' = [at EXCEPT ![g] = NextPhase(phase)]
                      /\ loc' = [loc EXCEPT ![g] = [LoopEnd(phase, l1) EXCEPT !.i = 0]]
                 ELSE /\ at' = at
                      /\ loc' = [loc EXCEPT ![g] = [l1 EXCEPT !.i = l.i + 1]]

\* for i := range r.Teams { idToTeam[...] = ...; inDegree[...] = 0 }
IdToTeamStep(g) ==
    /\ at # <<>>
    /\ at[g] = "idToTeam"
    /\ RangeStep(g, "idToTeam")
    /\ UNCHANGED <<mem, given, of, outs, teams, sortVars, rollupVars, boxVars, cliVars, kahn, wrap>>

\* for i := range r.Teams { ... inDegree[r.Teams[i].ID]++ ... }
InDegreeStep(g) ==
    /\ at # <<>>
    /\ at[g] = "inDegree"
    /\ RangeStep(g, "inDegree")
    /\ UNCHANGED <<mem, given, of, outs, teams, sortVars, rollupVars, boxVars, cliVars, kahn, wrap>>

\* for i := range r.Teams { ... downstream[dep] = append(...) ... }
DownstreamStep(g) ==
    /\ at # <<>>
    /\ at[g] = "downstream"
    /\ RangeStep(g, "downstream")
    /\ UNCHANGED <<mem, given, of, outs, teams, sortVars, rollupVars, boxVars, cliVars, kahn, wrap>>

\* for i := range r.Teams { ... queue = append(queue, ...) }; sortStrings(queue)
QueueStep(g) ==
    /\ at # <<>>
    /\ at[g] = "queue"
    /\ RangeStep(g, "queue")
    /\ UNCHANGED <<mem, given, of, outs, teams, sortVars, rollupVars, boxVars, cliVars, kahn, wrap>>

\* Release on Go maps: a missing key counts from zero.
RECURSIVE ReleaseMap(_, _, _, _)
ReleaseMap(down, k, deg, ready) ==
    IF k > Len(down) THEN [inDegree |-> deg, newlyReady |-> ready]
    ELSE LET d    == down[k]
             deg1 == Put(deg, d, Get(deg, d, 0) - 1)
         IN  ReleaseMap(down, k + 1, deg1, IF deg1[d] = 0 THEN Append(ready, d) ELSE ready)

\* The queue loop on the locals; idToTeam[id] of an id never stored is nil,
\* and *idToTeam[id] panics.
RECURSIVE QueueLoop(_)
QueueLoop(l) ==
    IF l.queue = <<>> THEN [locals |-> l, nil |-> FALSE]
    ELSE LET id == Head(l.queue)
             q1 == Tail(l.queue)
         IN  IF id \in l.processed THEN QueueLoop([l EXCEPT !.queue = q1])
             ELSE IF id \notin DOMAIN l.idToTeam THEN [locals |-> l, nil |-> TRUE]
             ELSE LET rel == ReleaseMap(Get(l.downstream, id, <<>>), 1, l.inDegree, <<>>)
                  IN  QueueLoop([l EXCEPT !.queue     = Enqueue(q1, rel.newlyReady),
                                          !.processed = @ \cup {id},
                                          !.sorted    = Append(@, l.idToTeam[id]),
                                          !.inDegree  = rel.inDegree])

\* sorted := make([]TeamSection, 0, len(r.Teams)), then the queue loop, which
\* works on the locals alone.
KahnLoop(g) ==
    /\ at # <<>>
    /\ at[g] = "kahn"
    /\ LET run == QueueLoop([loc[g] EXCEPT !.cap = mem[Receiver(g)].len])
       IN  /\ at' = [at EXCEPT ![g] = IF run.nil THEN "panic" ELSE "remaining"]
           /\ loc' = [loc EXCEPT ![g] = run.locals]
    /\ UNCHANGED <<mem, given, of, outs, teams, sortVars, rollupVars, boxVars, cliVars, kahn, wrap>>

\* for i := range r.Teams { if !processed[...] { sorted = append(...) } }
RemainingStep(g) ==
    /\ at # <<>>
    /\ at[g] = "remaining"
    /\ RangeStep(g, "remaining")
    /\ UNCHANGED <<mem, given, of, outs, teams, sortVars, rollupVars, boxVars, cliVars, kahn, wrap>>

\* r.Teams = sorted: one word of the slice header stored.
StoreTeams(g, word) ==
    /\ at # <<>>
    /\ at[g] = "store"
    /\ word \notin loc[g].stored
    /\ LET new == Slice(loc[g].sorted, loc[g].cap)
       IN  mem' = [mem EXCEPT ![Receiver(g)][word] = new[word]]
    /\ loc' = [loc EXCEPT ![g].stored = @ \cup {word}]
    /\ at' = [at EXCEPT ![g] = IF loc[g].stored \cup {word} = {"arr", "len"}
                               THEN "execute" ELSE "store"]
    /\ UNCHANGED <<given, of, outs, teams, sortVars, rollupVars, boxVars, cliVars, kahn, wrap>>

\* tmpl.Execute(r.w, report): the template ranges over .Teams as it reads it.
Execute(g) ==
    /\ at # <<>>
    /\ at[g] = "execute"
    /\ LET h == mem[Receiver(g)]
       IN  IF h.len > Len(h.arr)
           THEN /\ at' = [at EXCEPT ![g] = "panic"]
                /\ outs' = outs
           ELSE /\ at' = [at EXCEPT ![g] = "done"]
                /\ outs' = [outs EXCEPT ![g] = renderBox(TeamReport, SubSeq(h.arr, 1, h.len), <<>>)]
    /\ UNCHANGED <<mem, given, of, loc, teams, sortVars, rollupVars, boxVars, cliVars, kahn, wrap>>

Callers == {1, 2}

NextRace ==
    \/ \E ts \in SharedReports : Share(ts, <<SectionA>>, <<1, 1>>)
    \/ \E ts1, ts2 \in SharedReports : Share(ts1, ts2, <<1, 2>>)
    \/ \E g \in Callers : CheckLen(g)
    \/ \E g \in Callers : IdToTeamStep(g)
    \/ \E g \in Callers : InDegreeStep(g)
    \/ \E g \in Callers : DownstreamStep(g)
    \/ \E g \in Callers : QueueStep(g)
    \/ \E g \in Callers : KahnLoop(g)
    \/ \E g \in Callers : RemainingStep(g)
    \/ \E g \in Callers, word \in {"arr", "len"} : StoreTeams(g, word)
    \/ \E g \in Callers : Execute(g)

SpecRace == Init /\ [][NextRace]_vars

\* ------------------------------------------------------------------------
\* mas render (cmd/mas): runRender and main
\* ------------------------------------------------------------------------
\* The values tried for --format: the default "box", "narrative", and one the
\* flag's help does not name.
Formats == {"box", "narrative", "json"}

\* The values tried for --box-out and --narrative-out: not given, or a path.
Paths == {"", "report.out"}

\* The inputs tried: no byte; bytes that are not JSON; JSON whose fields have
\* the wrong types; JSON that leaves out required fields; a report.
Inputs == {"", "text", "mistyped", "partial", "report"}

\* json.Unmarshal(data, &v) into an interface{}: any JSON value.
IsJSON(d) == d \in {"mistyped", "partial", "report"}

\* schema.Validate(v)
SchemaValid(d) == d = "report"

\* json.Unmarshal(data, &report): JSON whose fields fit the struct.
Unmarshals(d) == d \in {"partial", "report"}

\* validateJSON: the error it returns ("" for nil).
validateJSON(d, compiled) ==
    IF ~compiled THEN "compiling schema"
    ELSE IF ~IsJSON(d) THEN "parsing JSON"
    ELSE IF ~SchemaValid(d) THEN "schema"
    ELSE ""

\* ParseTeamReport: the error it returns.
ParseTeamReport(d) == IF Unmarshals(d) THEN "" ELSE "json"

\* renderBox := boxOut != "" || (format == "box" && narrativeOut == "")
renderBoxFlag(f) == f.boxOut # "" \/ (f.format = "box" /\ f.narrativeOut = "")

\* renderNarrative := narrativeOut != "" || format == "narrative"
renderNarrativeFlag(f) == f.narrativeOut # "" \/ f.format = "narrative"

\* What an operation of the invocation did.
Did(op, format, to, ok) == [op |-> op, format |-> format, to |-> to, ok |-> ok]

\* mas render [flags] [file.json], typed into a shell.
Invoke(format, boxOut, narrativeOut, validate, args, d) ==
    /\ step = "shell"
    /\ flags' = [format |-> format, boxOut |-> boxOut, narrativeOut |-> narrativeOut,
                 validate |-> validate, args |-> args]
    /\ data' = d
    /\ step' = "read"
    /\ UNCHANGED <<err, code, log, teams, sortVars, rollupVars, boxVars, raceVars, kahn, wrap>>

\* os.ReadFile(args[0]) or io.ReadAll(os.Stdin), then the test for no data.
ReadInput(ok) ==
    /\ step = "read"
    /\ log' = Append(log, Did("read", "", IF flags.args > 0 THEN "file" ELSE "stdin", ok))
    /\ IF ~ok
       THEN /\ err' = (IF flags.args > 0 THEN "reading file" ELSE "reading stdin")
            /\ step' = "main"
       ELSE IF data = ""
       THEN /\ err' = "empty input"
            /\ step' = "main"
       ELSE /\ err' = err
            /\ step' = (IF flags.validate THEN "validate" ELSE "parse")
    /\ UNCHANGED <<flags, data, code, teams, sortVars, rollupVars, boxVars, raceVars, kahn, wrap>>

\* if validate { validateJSON(data) }
Validate(compiled) ==
    /\ step = "validate"
    /\ LET e == validateJSON(data, compiled)
       IN  /\ log' = Append(log, Did("validate", "", "", e = ""))
           /\ err' = (IF e # "" THEN "validation failed" ELSE err)
           /\ step' = (IF e # "" THEN "main" ELSE "parse")
    /\ UNCHANGED <<flags, data, code, teams, sortVars, rollupVars, boxVars, raceVars, kahn, wrap>>

\* report, err := multiagentspec.ParseTeamReport(data)
Parse ==
    /\ step = "parse"
    /\ LET e == ParseTeamReport(data)
       IN  /\ log' = Append(log, Did("parse", "", "", e = ""))
           /\ err' = (IF e # "" THEN "parsing report" ELSE err)
           /\ step' = (IF e # "" THEN "main" ELSE "box")
    /\ UNCHANGED <<flags, data, code, teams, sortVars, rollupVars, boxVars, raceVars, kahn, wrap>>

\* One of the two blocks `if renderX { ... }`: the file created when a path
\* was given, then Render on the file or on os.Stdout.
RenderBlock(wanted, format, path, created, rendered, next) ==
    IF ~wanted
    THEN /\ step' = next
         /\ UNCHANGED <<err, log, wrap>>
    ELSE IF path # "" /\ ~created
    THEN /\ log' = Append(log, Did("create", format, "file", FALSE))
         /\ err' = (IF format = "box" THEN "creating box output file"
                    ELSE "creating narrative output file")
         /\ step' = "main"
    ELSE /\ log' = Append(log, Did("render", format, IF path # "" THEN "file" ELSE "stdout", rendered))
         /\ err' = (IF rendered THEN err
                    ELSE IF format = "box" THEN "rendering box format"
                    ELSE "rendering narrative format")
         /\ step' = (IF rendered THEN next ELSE "main")

\* if renderBox { ... }
RenderBoxBlock(created, rendered) ==
    /\ step = "box"
    /\ RenderBlock(renderBoxFlag(flags), "box", flags.boxOut, created, rendered, "narrative")
    /\ UNCHANGED <<flags, data, code, teams, sortVars, rollupVars, boxVars, raceVars, kahn, wrap>>

\* if renderNarrative { ... }; return nil
RenderNarrativeBlock(created, rendered) ==
    /\ step = "narrative"
    /\ RenderBlock(renderNarrativeFlag(flags), "narrative", flags.narrativeOut, created, rendered, "main")
    /\ UNCHANGED <<flags, data, code, teams, sortVars, rollupVars, boxVars, raceVars, kahn, wrap>>

\* main that exits with 0 whatever Execute returns.
ExitCodeZero(e) == 0

\* main: if err := cmd.Execute(); err != nil { os.Exit(1) }
ExitCode(e) == IF e # "" THEN 1 ELSE 0

Main ==
    /\ step = "main"
    /\ code' = ExitCode(err)
    /\ step' = "exit"
    /\ UNCHANGED <<flags, data, err, log, teams, sortVars, rollupVars, boxVars, raceVars, kahn, wrap>>

NextCli ==
    \/ \E format \in Formats, boxOut, narrativeOut \in Paths, validate \in BOOLEAN,
          args \in {0, 1}, d \in Inputs :
           Invoke(format, boxOut, narrativeOut, validate, args, d)
    \/ \E ok \in BOOLEAN : ReadInput(ok)
    \/ \E compiled \in BOOLEAN : Validate(compiled)
    \/ Parse
    \/ \E created, rendered \in BOOLEAN : RenderBoxBlock(created, rendered)
    \/ \E created, rendered \in BOOLEAN : RenderNarrativeBlock(created, rendered)
    \/ Main

SpecCli == Init /\ [][NextCli]_vars

\* ------------------------------------------------------------------------
\* A parsed report of four sections, sorted once
\* ------------------------------------------------------------------------
\* The section ids of these reports: "a", "b", "c", "d".
LevelIds == {<<97>>, <<98>>, <<99>>, <<100>>}

\* The reports: the four ids in every order, each section with no depends_on
\* entry or with one (itself and ids on a cycle included).
LevelReports ==
    LET n == Cardinality(LevelIds)
    IN  {[i \in 1..n |-> TeamSection(p[i], NameOf(i), d[i], StatusGo)] :
            p \in {f \in [1..n -> LevelIds] : \A i, j \in 1..n : f[i] = f[j] => i = j},
            d \in [1..n -> SeqsUpTo(LevelIds, 1)]}

\* ParseTeamReport: the sections of the document become report.Teams.
LoadReport(ts) ==
    /\ pc = "build"
    /\ teams = <<>>
    /\ teams' = ts
    /\ UNCHANGED <<sortVars, rollupVars, boxVars, raceVars, cliVars, kahn, wrap>>

NextLevels ==
    \/ \E ts \in LevelReports : LoadReport(ts)
    \/ SortOnce

SpecLevels == Init /\ [][NextLevels]_vars

\* ------------------------------------------------------------------------
\* SortByDAG step by step: one step for the maps and the queue, one for every
\* iteration of the queue loop, one for the remaining sections and the return
\* ------------------------------------------------------------------------
\* report.SortByDAG() is called: the length test, then the loops that build
\* idToTeam, inDegree, downstream and the queue.
BeginSort ==
    /\ pc = "build"
    /\ input' = teams
    /\ resort' = FALSE
    /\ IF Len(teams) <= 1
       THEN /\ pc' = "done"
            /\ kahn' = kahn
       ELSE /\ pc' = "sort"
            /\ kahn' = KahnState(teams)
    /\ UNCHANGED <<teams, processed, rollupVars, boxVars, raceVars, cliVars, wrap>>

\* for len(queue) > 0 { ... }: one iteration.
Dequeue ==
    /\ pc = "sort"
    /\ kahn.queue # <<>>
    /\ kahn' = KahnStep(teams, kahn)
    /\ UNCHANGED <<teams, sortVars, rollupVars, boxVars, raceVars, cliVars, wrap>>

\* The queue is empty: the remaining sections, r.Teams = sorted, return.
ReturnSorted ==
    /\ pc = "sort"
    /\ kahn.queue = <<>>
    /\ teams' = Finish(teams, kahn)
    /\ processed' = kahn.processed
    /\ pc' = "done"
    /\ kahn' = <<>>
    /\ UNCHANGED <<input, resort, rollupVars, boxVars, raceVars, cliVars, wrap>>

NextSteps ==
    \/ \E id \in Ids, deps \in SeqsUpTo(Ids, MaxEdges - EdgeCount(teams)) :
           AppendTeam(id, deps, StatusGo)
    \/ BeginSort
    \/ Dequeue
    \/ ReturnSorted

\* A call that has begun keeps running: the goroutine is scheduled.
SpecSteps == Init /\ [][NextSteps]_vars /\ WF_vars(Dequeue) /\ WF_vars(ReturnSorted)

\* ------------------------------------------------------------------------
\* wrapText called on a text and a budget
\* ------------------------------------------------------------------------
\* Most runes of the text.
MaxContent == 7

\* The largest budget.
MaxWidth == 5

\* The runes of the text: "x", a space, and U+1F680 (4 bytes, 2 columns).
WrapRunes == {120, 32, 128640}

\* The caller puts the text together, rune by rune.
AddRune(c) ==
    /\ ~wrap.called
    /\ Len(wrap.content) < MaxContent
    /\ wrap' = [wrap EXCEPT !.content = Append(@, c)]
    /\ UNCHANGED <<teams, sortVars, rollupVars, boxVars, raceVars, cliVars, kahn>>

\* lines := wrapText(content, maxWidth)
CallWrapText(maxWidth) ==
    /\ ~wrap.called
    /\ wrap' = [wrap EXCEPT !.maxWidth = maxWidth,
                            !.lines = wrapText(wrap.content, maxWidth),
                            !.called = TRUE]
    /\ UNCHANGED <<teams, sortVars, rollupVars, boxVars, raceVars, cliVars, kahn>>

NextWrap ==
    \/ \E c \in WrapRunes : AddRune(c)
    \/ \E maxWidth \in 1..MaxWidth : CallWrapText(maxWidth)

SpecWrap == Init /\ [][NextWrap]_vars

\* ------------------------------------------------------------------------
\* One report rendered in both formats
\* ------------------------------------------------------------------------
\* A report with a stored status and sections of every status, written as a
\* box and as a narrative, as `mas render --box-out --narrative-out` does.
NextBoth ==
    \/ \E s \in Statuses : SetStatus(s)
    \/ \E id \in TagKeys, s \in Statuses : AddSection(id, <<>>, s)
    \/ \E keys \in KeyOrders(DOMAIN report.Tags) : Render(keys)
    \/ RenderNarrative

SpecBoth == Init /\ [][NextBoth]_vars

\* ------------------------------------------------------------------------
\* A report with tags, rendered as a box
\* ------------------------------------------------------------------------
\* The keys of the tags: "a", "ab", "b".
MoreTagKeys == TagKeys \cup {<<97, 98>>}

\* Tags, a project and a target, then the box under every order in which the
\* map can yield the keys.
NextTags ==
    \/ \E k \in MoreTagKeys, v \in PlainTexts : SetTag(k, v)
    \/ \E f \in {"Project", "Target"}, t \in PlainTexts : SetField(f, t)
    \/ \E b \in Blocks : AddReportBlock("SummaryBlocks", b)
    \/ \E keys \in KeyOrders(DOMAIN report.Tags) : Render(keys)

SpecTags == Init /\ [][NextTags]_vars

\* ------------------------------------------------------------------------
\* The dependency graph of a list of sections (for stating the properties)
\* ------------------------------------------------------------------------
DistinctIds(ts) == \A i, j \in 1..Len(ts) : ts[i].ID = ts[j].ID => i = j

\* The existing ids that the sections with id x name in depends_on.
DepIds(ts, x) ==
    UNION {Range(ts[i].DependsOn) : i \in {k \in 1..Len(ts) : ts[k].ID = x}}
        \cap Range(IDsOf(ts))

\* The existing edges <<x, y>>: a section with id x names the existing id y.
EdgeSet(ts) ==
    UNION {{<<ts[i].ID, d>> : d \in Range(ts[i].DependsOn) \cap Range(IDsOf(ts))} :
           i \in 1..Len(ts)}

RECURSIVE Extend(_, _, _)
Extend(E, R, n) ==
    IF n = 0 THEN R
    ELSE Extend(E, R \cup {<<re[1][1], re[2][2]>> : re \in {x \in R \X E : x[1][2] = x[2][1]}}, n - 1)

\* <<x, y>> is in Depends(ts) when x depends on y through one or more existing edges.
Depends(ts) == Extend(EdgeSet(ts), EdgeSet(ts), Cardinality(Range(IDsOf(ts))))

\* The ids on a dependency cycle.
CycleIds(ts) == {x \in Range(IDsOf(ts)) : <<x, x>> \in Depends(ts)}

Acyclic(ts) == CycleIds(ts) = {}

\* The ids that are on a cycle or depend on an id that is.
StuckIds(ts) ==
    LET D == Depends(ts)
    IN  {x \in Range(IDsOf(ts)) :
            \E y \in Range(IDsOf(ts)) : <<y, y>> \in D /\ (x = y \/ <<x, y>> \in D)}

NamesOf(ts) == [i \in 1..Len(ts) |-> ts[i].Name]

\* Position of the section called name in ts (0 when it is not there).
Pos(ts, name) == IF \E i \in 1..Len(ts) : ts[i].Name = name
                 THEN CHOOSE i \in 1..Len(ts) : ts[i].Name = name ELSE 0

Bijections(n) == {f \in [1..n -> 1..n] : \A i, j \in 1..n : f[i] = f[j] => i = j}

\* The permutations of 1..n for every length of list the model builds.
PermsOf == [n \in 0..Max(MaxTeams, MaxTasks) |-> Bijections(n)]

\* ts reordered by the permutation f.
Reordered(ts, f) == [i \in 1..Len(ts) |-> ts[f[i]]]

\* Every reordering of ts.
Reorderings(ts) == {Reordered(ts, f) : f \in PermsOf[Len(ts)]}

\* The sections emitted by the queue loop of the last SortByDAG.
Emitted == SelectSeq(teams, LAMBDA t : t.ID \in processed)

\* Number of sections emitted before the id became ready: the position in the
\* output of the last emitted dependency of id, 0 when it has none.
ReadyAt(id) ==
    LET ps == {p \in 1..Len(Emitted) : Emitted[p].ID \in DepIds(input, id)}
    IN  IF ps = {} THEN 0 ELSE CHOOSE p \in ps : \A q \in ps : q <= p

\* The ids of ts that are ready once the ids in done are emitted: not emitted
\* themselves, every existing dependency emitted.
ReadyIds(ts, done) == {id \in Range(IDsOf(ts)) : id \notin done /\ DepIds(ts, id) \subseteq done}

\* ts without the j-th depends_on entry of its i-th section.
RemoveDep(ts, i, j) ==
    [ts EXCEPT ![i].DependsOn =
        SubSeq(ts[i].DependsOn, 1, j - 1) \o SubSeq(ts[i].DependsOn, j + 1, Len(ts[i].DependsOn))]

\* ------------------------------------------------------------------------
\* Properties of SortByDAG
\* ------------------------------------------------------------------------
\* C1: on an acyclic input with distinct ids, after SortByDAG every section is
\* in the report and comes after every existing section named in its depends_on.
C1_DependenciesFirst ==
    (pc = "done" /\ DistinctIds(input) /\ Acyclic(input)) =>
        /\ \A k \in 1..Len(input) : Pos(teams, input[k].Name) > 0
        /\ \A i, j \in 1..Len(teams) :
               teams[j].ID \in Range(teams[i].DependsOn) => j < i

\* The scenario [release -> qa, qa -> pm, pm] with the ids b, ab, a.
C1_Witness ==
    /\ pc = "done"
    /\ DistinctIds(input) /\ Acyclic(input)
    /\ IDsOf(input) = << <<98>>, <<97, 98>> , <<97>> >>
    /\ input[1].DependsOn = << <<97, 98>> >>
    /\ input[2].DependsOn = << <<97>> >>
    /\ IDsOf(teams) = << <<97>>, <<97, 98>>, <<98>> >>

\* C2 (as claimed): the output of SortByDAG has the length of the input and
\* holds every input section exactly once.
C2_Permutation ==
    pc = "done" =>
        /\ Len(teams) = Len(input)
        /\ \A k \in 1..Len(input) :
               Cardinality({i \in 1..Len(teams) : teams[i] = input[k]}) = 1

\* C3 (as claimed): whenever the loop emits, the id emitted is the
\* lexicographically smallest of all the ids that are ready.
C3_SmallestReadyFirst ==
    (pc = "done" /\ Len(input) > 1) =>
        LET trace == KahnTrace(input, KahnState(input))
        IN  \A k \in 1..Len(trace) :
                (trace[k].queue # <<>> /\ Head(trace[k].queue) \notin trace[k].processed) =>
                    \A r \in ReadyIds(input, trace[k].processed) :
                        ~StrLess(r, Head(trace[k].queue))

\* C3 (amended): the ids are emitted first-in first-out by the moment they
\* became ready, and in ascending id order among those that became ready at
\* the same moment.
C3_FifoByReadiness ==
    pc = "done" =>
        \A i, j \in 1..Len(Emitted) :
            i < j =>
                \/ ReadyAt(Emitted[i].ID) < ReadyAt(Emitted[j].ID)
                \/ /\ ReadyAt(Emitted[i].ID) = ReadyAt(Emitted[j].ID)
                   /\ StrLess(Emitted[i].ID, Emitted[j].ID)

\* An id that was ready before a lexicographically larger id was emitted, and
\* yet comes after it.
C3_Witness ==
    /\ pc = "done"
    /\ \E i, j \in 1..Len(Emitted) :
           /\ i < j
           /\ StrLess(Emitted[j].ID, Emitted[i].ID)
           /\ ReadyAt(Emitted[j].ID) < i

\* C4 (as claimed): reordering the input changes the relative order of two
\* output sections only if they are members of a cycle.
C4_OrderIndependent ==
    pc = "done" =>
        LET cycle == CycleIds(input)
        IN  \A p \in Reorderings(input) :
                LET o == SortedTeams(p)
                IN  \A x, y \in Range(NamesOf(teams)) \cap Range(NamesOf(o)) :
                        LET tx == teams[Pos(teams, x)]
                            ty == teams[Pos(teams, y)]
                        IN  (tx.ID \notin cycle /\ ty.ID \notin cycle) =>
                                (Pos(teams, x) < Pos(teams, y) <=> Pos(o, x) < Pos(o, y))

\* C4 (amended): reordering the input changes neither which ids the queue loop
\* emits nor their order, and the sections that are never emitted follow in
\* the order of the reordered input.
C4_OrderIndependentIds ==
    pc = "done" =>
        LET stuck == StuckIds(input)
            n     == Len(SelectSeq(teams, LAMBDA t : t.ID \notin stuck))
        IN  \A f \in PermsOf[Len(input)] :
                LET p == Reordered(input, f)
                    o == SortedTeams(p)
                IN  /\ Len(o) = Len(teams)
                    /\ \A i \in 1..n : o[i].ID = teams[i].ID
                    /\ SubSeq(o, n + 1, Len(o)) = SelectSeq(p, LAMBDA t : t.ID \in stuck)

\* Distinct ids, an emitted section, and a reordering that changes the output.
C4_Witness ==
    /\ pc = "done"
    /\ DistinctIds(input)
    /\ Len(Emitted) >= 1
    /\ \E p \in Reorderings(input) : NamesOf(SortedTeams(p)) # NamesOf(teams)

\* C5 (as claimed): SortByDAG on the result of SortByDAG changes nothing.
C5_Idempotent == (pc = "done" /\ resort) => teams = input

\* C6: the sections that never become ready (on a cycle, or depending on one)
\* come last, in input order, after every emitted section.
C6_CyclesLast ==
    (pc = "done" /\ Len(input) > 1) =>
        LET stuck == StuckIds(input)
            last  == SelectSeq(input, LAMBDA t : t.ID \in stuck)
            n     == Len(teams) - Len(last)
        IN  /\ n >= 0
            /\ SubSeq(teams, n + 1, Len(teams)) = last
            /\ \A i \in 1..n : teams[i].ID \notin stuck

\* Two sections that depend on each other, given before a section that is emitted.
C6_Witness ==
    /\ pc = "done"
    /\ Len(input) = 3
    /\ DistinctIds(input)
    /\ input[1].DependsOn = <<input[2].ID>>
    /\ input[2].DependsOn = <<input[1].ID>>
    /\ input[3].DependsOn = <<>>
    /\ NamesOf(teams) = <<input[3].Name, input[1].Name, input[2].Name>>

\* C7: a depends_on entry that names no section of the report changes neither
\* the in-degrees nor the output order.
C7_MissingDependencyIgnored ==
    pc = "done" =>
        \A i \in 1..Len(input) :
            \A j \in 1..Len(input[i].DependsOn) :
                input[i].DependsOn[j] \notin Range(IDsOf(input)) =>
                    /\ KahnState(RemoveDep(input, i, j)).inDegree = KahnState(input).inDegree
                    /\ NamesOf(SortedTeams(RemoveDep(input, i, j))) = NamesOf(teams)

\* The scenario [b -> missing, a]: both are ready, the output is [a, b].
C7_Witness ==
    /\ pc = "done"
    /\ Len(input) = 2
    /\ DistinctIds(input)
    /\ Len(input[1].DependsOn) = 1
    /\ input[1].DependsOn[1] \notin Range(IDsOf(input))
    /\ input[2].DependsOn = <<>>
    /\ NamesOf(teams) = <<input[2].Name, input[1].Name>>

\* ------------------------------------------------------------------------
\* Properties of the status rollup
\* ------------------------------------------------------------------------
StatusesOf(ts) == [i \in 1..Len(ts) |-> ts[i].Status]

\* The aggregate rule of the specification, on a list of statuses.
Aggregate(ss) ==
    IF StatusNoGo \in Range(ss) THEN StatusNoGo
    ELSE IF StatusWarn \in Range(ss) THEN StatusWarn
    ELSE IF \A i \in 1..Len(ss) : ss[i] = StatusSkip THEN StatusSkip
    ELSE StatusGo

\* C8: the section rollup returns the aggregate of the task statuses, and the
\* same status for every reordering of the tasks.
C8_SectionRollup ==
    call = "ComputeStatus" =>
        /\ ret = Aggregate(StatusesOf(tasks))
        /\ \A p \in Reorderings(tasks) : computeStatusFromTasks(p) = ret

\* A rollup of GO and SKIP tasks: SKIP is neutral, the result is GO.
C8_Witness ==
    /\ call = "ComputeStatus"
    /\ Range(StatusesOf(tasks)) = {StatusGo, StatusSkip}
    /\ ret = StatusGo

\* C9 (as claimed): on the same list of statuses the report rollup returns what
\* the section rollup returns.
C9_SameRollup ==
    call = "ComputeOverallStatus" =>
        ret = computeStatusFromTasks([i \in 1..Len(teams) |-> TaskResult(teams[i].Status)])

\* ------------------------------------------------------------------------
\* Properties of the box renderer
\* ------------------------------------------------------------------------
\* C10 (as claimed): every line written by Renderer.Render has the same visual
\* width, the two border glyphs and boxWidth columns between them, whatever
\* the report holds.
C10_UniformWidth ==
    \A i \in 1..Len(out) : visualLength(out[i]) = boxWidth + 2

\* ------------------------------------------------------------------------
\* Properties of the narrative renderer
\* ------------------------------------------------------------------------
\* A rune that takes two columns: the emoji ranges of visualLength.
IsEmoji(c) == RuneWidth(c) = 2

\* The texts of a content block.
BlockTexts(b) ==
    {b.Title, b.Content, b.Label, b.Value, b.Status, b.Target}
    \cup UNION {{b.Pairs[i].Key, b.Pairs[i].Value, b.Pairs[i].Icon} : i \in 1..Len(b.Pairs)}
    \cup UNION {{b.Items[i].Text, b.Items[i].Icon, b.Items[i].Status} : i \in 1..Len(b.Items)}
    \cup Range(b.Headers)
    \cup UNION {Range(b.Rows[k]) : k \in 1..Len(b.Rows)}

BlocksTexts(bs) == UNION {BlockTexts(bs[i]) : i \in 1..Len(bs)}

\* The texts of a section.
TeamTexts(t) ==
    {t.ID, t.Name, t.Status, t.Verdict}
    \cup UNION {{t.Tasks[k].ID, t.Tasks[k].Status, t.Tasks[k].Severity, t.Tasks[k].Detail} :
                   k \in 1..Len(t.Tasks)}
    \cup UNION {{t.Narrative[k].Problem, t.Narrative[k].Analysis, t.Narrative[k].Recommendation} :
                   k \in 1..Len(t.Narrative)}
    \cup BlocksTexts(t.ContentBlocks)

\* The texts of the report.
ReportTexts(r, ts) ==
    {r[f] : f \in TextFields \cup ProseFields \cup {"Status"}}
    \cup DOMAIN r.Tags \cup {r.Tags[k] : k \in DOMAIN r.Tags}
    \cup BlocksTexts(r.SummaryBlocks) \cup BlocksTexts(r.FooterBlocks)
    \cup UNION {TeamTexts(ts[i]) : i \in 1..Len(ts)}

\* The runes of the texts of the report.
ReportRunes(r, ts) == UNION {Range(s) : s \in ReportTexts(r, ts)}

Contains(s, sub) ==
    \E i \in 0..(Len(s) - Len(sub)) : \A j \in 1..Len(sub) : s[i + j] = sub[j]

\* C12 (as claimed): in the narrative of a report, every section with tasks has
\* the table header with a Severity column, and every task result is the row
\* | id | status word | severity | detail |, the severity cell empty when the
\* task result has no severity.
C12_SeverityColumn ==
    narr # <<>> =>
        \A i \in 1..Len(teams) :
            /\ Len(teams[i].Tasks) > 0 => Contains(narr, <<10, 124, 32, 84, 97, 115, 107, 32, 124, 32, 83, 116, 97, 116, 117, 115, 32, 124, 32, 83, 101, 118, 101, 114, 105, 116, 121, 32, 124, 32, 68, 101, 116, 97, 105, 108, 32, 124, 10>>)
            /\ \A k \in 1..Len(teams[i].Tasks) :
                   LET task == teams[i].Tasks[k]
                   IN  Contains(narr, <<10, 124, 32>> \o task.ID \o <<32, 124, 32>>
                                          \o statusText(task.Status) \o <<32, 124, 32>>
                                          \o task.Severity \o <<32, 124, 32>>
                                          \o task.Detail \o <<32, 124, 10>>)

\* ------------------------------------------------------------------------
\* Properties of Render
\* ------------------------------------------------------------------------
\* The lines of the box output that are the header line of a section of ts.
HeaderLines(lines, ts) ==
    SelectSeq(lines, LAMBDA l : \E i \in 1..Len(ts) : l = teamHeader(ts[i]))

\* The index of the first occurrence of sub in s (0 when there is none).
IndexOf(s, sub) ==
    LET hits == {i \in 1..(Len(s) - Len(sub) + 1) : \A j \in 1..Len(sub) : s[i + j - 1] = sub[j]}
    IN  IF hits = {} THEN 0 ELSE CHOOSE i \in hits : \A k \in hits : i <= k

\* The heading of a section in the narrative.
HeadingMD(t) == <<10, 10, 35, 35, 35, 32>> \o t.Name \o <<10>>

\* The sections are printed in the order of ts: in the box the header lines
\* are those of ts, one after the other; in the narrative the headings of ts
\* occur at growing places.
PrintedInOrder(ts) ==
    /\ out # <<>> => HeaderLines(out, input) = [i \in 1..Len(ts) |-> teamHeader(ts[i])]
    /\ narr # <<>> =>
           /\ \A i \in 1..Len(ts) : IndexOf(narr, HeadingMD(ts[i])) > 0
           /\ \A i, j \in 1..Len(ts) :
                  i < j => IndexOf(narr, HeadingMD(ts[i])) < IndexOf(narr, HeadingMD(ts[j]))

\* C13: when Renderer.Render or NarrativeRenderer.Render has returned, the
\* sections were printed in the order SortByDAG gives the input, whatever the
\* input order, report.Teams is in that order, and on an acyclic input with
\* distinct ids every section is printed after the sections it depends on.
C13_RenderSorts ==
    pc = "done" =>
        /\ teams = SortedTeams(input)
        /\ PrintedInOrder(SortedTeams(input))
        /\ (DistinctIds(input) /\ Acyclic(input)) =>
               \A i, j \in 1..Len(teams) :
                   teams[j].ID \in Range(teams[i].DependsOn) => j < i

\* A report of three sections, the first depending on the second, rendered
\* by the box renderer: the sections came in another order than the DAG order.
C13_Witness ==
    /\ pc = "done"
    /\ DistinctIds(input) /\ Acyclic(input)
    /\ Len(input) = 3
    /\ teams # input
    /\ out # <<>>
    /\ input[1].DependsOn = <<input[2].ID>>

\* C14 (as claimed): a Render call leaves every field of the report as it
\* was, and every section with all its fields, and changes only the order of
\* the sections: the sections after the call are those before it, each as
\* often as before.
C14_OnlyOrderChanges ==
    [][(pc = "build" /\ pc' = "done") =>
          /\ report' = report
          /\ Len(teams') = Len(teams)
          /\ \A i \in 1..Len(teams) :
                 Cardinality({j \in 1..Len(teams') : teams'[j] = teams[i]})
                     = Cardinality({j \in 1..Len(teams) : teams[j] = teams[i]})]_vars

\* ------------------------------------------------------------------------
\* Optional fields
\* ------------------------------------------------------------------------
\* How often sub occurs in s.
Count(s, sub) ==
    Cardinality({i \in 1..(Len(s) - Len(sub) + 1) : \A j \in 1..Len(sub) : s[i + j - 1] = sub[j]})

\* The heading is in the narrative exactly when the field is there.
HeadingIff(heading, present) == Contains(narr, heading) <=> present

\* The heading is in the narrative once for every section that has the field.
HeadingPerSection(heading, Has(_)) ==
    Count(narr, heading) = Cardinality({i \in 1..Len(teams) : Has(teams[i])})

\* The narrative has the element of an optional field exactly when the field
\* is not empty.
NarrativeOptional ==
    /\ HeadingIff(<<10, 35, 35, 32, 69, 120, 101, 99, 117, 116, 105, 118, 101, 32, 83, 117, 109, 109, 97, 114, 121, 10>>, report.Summary # <<>>)
    /\ HeadingIff(<<10, 35, 35, 32, 79, 118, 101, 114, 118, 105, 101, 119, 10>>, report.SummaryBlocks # <<>>)
    /\ HeadingIff(<<10, 35, 35, 32, 65, 99, 116, 105, 111, 110, 32, 73, 116, 101, 109, 115, 10>>, report.FooterBlocks # <<>>)
    /\ HeadingIff(<<10, 35, 35, 32, 67, 111, 110, 99, 108, 117, 115, 105, 111, 110, 10>>, report.Conclusion # <<>>)
    /\ HeadingPerSection(<<10, 35, 35, 35, 35, 32, 84, 97, 115, 107, 115, 10>>, LAMBDA t : t.Tasks # <<>>)
    /\ HeadingPerSection(<<10, 35, 35, 35, 35, 32, 68, 101, 116, 97, 105, 108, 115, 10>>, LAMBDA t : t.ContentBlocks # <<>>)
    /\ HeadingPerSection(<<10, 35, 35, 35, 35, 32, 80, 114, 111, 98, 108, 101, 109, 10>>,
                         LAMBDA t : t.Narrative # <<>> /\ t.Narrative[1].Problem # <<>>)
    /\ HeadingPerSection(<<10, 35, 35, 35, 35, 32, 65, 110, 97, 108, 121, 115, 105, 115, 10>>,
                         LAMBDA t : t.Narrative # <<>> /\ t.Narrative[1].Analysis # <<>>)
    /\ HeadingPerSection(<<10, 35, 35, 35, 35, 32, 82, 101, 99, 111, 109, 109, 101, 110, 100, 97, 116, 105, 111, 110, 10>>,
                         LAMBDA t : t.Narrative # <<>> /\ t.Narrative[1].Recommendation # <<>>)
    /\ \A i \in 1..Len(teams) :
           /\ teams[i].Verdict # <<>> => Contains(narr, teams[i].Verdict)
           /\ \A k \in 1..Len(teams[i].Tasks) :
                  teams[i].Tasks[k].Severity # <<>> =>
                      Contains(narr, <<124, 32>> \o teams[i].Tasks[k].Severity \o <<32, 124>>)
    /\ \A key \in DOMAIN report.Tags :
           Contains(narr, key) /\ Contains(narr, report.Tags[key])

\* The lines of the sections from the i-th on, when each has its separator,
\* its header, a line for every task and the lines of its content blocks.
RECURSIVE SectionLines(_, _)
SectionLines(ts, i) ==
    IF i > Len(ts) THEN 0
    ELSE 2 + Len(ts[i].Tasks)
           + (IF ts[i].ContentBlocks # <<>> THEN Len(renderBlocks(ts[i].ContentBlocks)) ELSE 0)
           + SectionLines(ts, i + 1)

\* The box has the lines of an optional field exactly when the field is not
\* empty: the output has the fixed lines, and one line for the "Tags:" label,
\* every tag, every task and every line of a block, and nothing else; the
\* verdict and the severity are on their lines exactly when they are set.
BoxOptional ==
    LET legacy == report.SummaryBlocks = <<>>
        tags   == Cardinality(DOMAIN report.Tags)
        top    == IF legacy
                  THEN 2 + (IF tags > 0 THEN 1 + tags ELSE 0)
                  ELSE Len(renderBlocks(report.SummaryBlocks))
        foot   == IF report.FooterBlocks # <<>>
                  THEN 1 + Len(renderBlocks(report.FooterBlocks)) ELSE 0
    IN  /\ Len(out) = 3 + top + 2 + SectionLines(teams, 1) + foot + 3
        /\ (\E i \in 1..Len(out) : out[i] = paddedLine(<<84, 97, 103, 115, 58>>)) <=> (legacy /\ tags > 0)
        /\ Cardinality({i \in 1..Len(out) : Count(out[i], <<32, 8212, 32>>) = 2})
               = Cardinality({i \in 1..Len(teams) : teams[i].Verdict # <<>>})
        /\ \A i \in 1..Len(teams) :
               /\ teams[i].Verdict # <<>> =>
                      \E l \in Range(out) : Contains(l, <<32, 8212, 32>> \o teams[i].Verdict)
               /\ \A k \in 1..Len(teams[i].Tasks) :
                      teams[i].Tasks[k].Severity # <<>> =>
                          \E l \in Range(out) :
                              Contains(l, <<32, 91>> \o teams[i].Tasks[k].Severity \o <<93>>)

\* C16 (as claimed): in the output of either renderer the element of an
\* optional field (summary, summary blocks, narrative prose, tasks, content
\* blocks, footer blocks, conclusion, verdict, severity, tags) is there
\* exactly when the field is not empty, and an empty field leaves no heading,
\* label or line behind.
C16_OptionalElements ==
    /\ narr # <<>> => NarrativeOptional
    /\ out # <<>> => BoxOptional

\* ------------------------------------------------------------------------
\* The final message of the box
\* ------------------------------------------------------------------------
GoMessage(version) == <<128640, 32, 84, 69, 65, 77, 58, 32, 71, 79, 32, 102, 111, 114, 32>> \o version \o <<32, 128640>>

NoGoMessage(version) == <<128721, 32, 84, 69, 65, 77, 58, 32, 78, 79, 45, 71, 79, 32, 102, 111, 114, 32>> \o version \o <<32, 128721>>

\* The text of the line before the bottom border, without the border and the
\* padding around it.
FinalText(lines) ==
    LET l == lines[Len(lines) - 1]
        inner == {i \in 2..(Len(l) - 1) : l[i] # 32}
        Lo == CHOOSE i \in inner : \A k \in inner : i <= k
        Hi == CHOOSE i \in inner : \A k \in inner : i >= k
    IN  SubSeq(l, Lo, Hi)

\* C17 (as claimed): the final message of the box output of a report is the
\* NO-GO message when one of the report's sections has status NO-GO, and the
\* GO message otherwise, whatever the other statuses are.
C17_FinalMessage ==
    out # <<>> =>
        FinalText(out) = IF \E i \in 1..Len(input) : input[i].Status = StatusNoGo
                         THEN NoGoMessage(report.Version)
                         ELSE GoMessage(report.Version)

\* ------------------------------------------------------------------------
\* Summary blocks or the legacy block
\* ------------------------------------------------------------------------
StartsWith(s, prefix) == Len(s) >= Len(prefix) /\ SubSeq(s, 1, Len(prefix)) = prefix

\* The legacy block is in the lines: a "Project: " line followed by a
\* "Target:  " line, then the "Tags:" label and a line for every tag when the
\* report has tags, then a separator.
LegacyIn(lines) ==
    \E i \in 1..(Len(lines) - 2) :
        /\ lines[i] = paddedLine(<<80, 114, 111, 106, 101, 99, 116, 58, 32>> \o report.Project)
        /\ lines[i + 1] = paddedLine(<<84, 97, 114, 103, 101, 116, 58, 32, 32>> \o report.Target)
        /\ LET n == Cardinality(DOMAIN report.Tags)
           IN  IF n = 0 THEN lines[i + 2] = separator
               ELSE /\ i + 3 + n <= Len(lines)
                    /\ lines[i + 2] = paddedLine(<<84, 97, 103, 115, 58>>)
                    /\ lines[i + 3 + n] = separator

\* A line of the legacy block is in the lines.
LegacyLineIn(lines) ==
    \E i \in 1..Len(lines) :
        \/ StartsWith(lines[i], <<9553, 32>> \o <<80, 114, 111, 106, 101, 99, 116, 58, 32>>)
        \/ StartsWith(lines[i], <<9553, 32>> \o <<84, 97, 114, 103, 101, 116, 58, 32, 32>>)
        \/ StartsWith(lines[i], <<9553, 32>> \o <<84, 97, 103, 115, 58>>)

\* The rendered summary blocks are in the lines, after the separator under
\* the title and closed by a separator.
SummaryBlocksIn(lines) ==
    LET rendered == renderBlocks(report.SummaryBlocks)
    IN  /\ report.SummaryBlocks # <<>>
        /\ Len(lines) >= 4 + Len(rendered)
        /\ SubSeq(lines, 4, 3 + Len(rendered)) = rendered
        /\ lines[4 + Len(rendered)] = separator

\* C18: the box output has either the rendered summary blocks or the legacy
\* Project/Target/Tags block, never both and never neither, and the legacy
\* block exactly when the report has no summary blocks.
C18_SummaryOrLegacy ==
    out # <<>> =>
        /\ LegacyIn(out) <=> report.SummaryBlocks = <<>>
        /\ SummaryBlocksIn(out) <=> report.SummaryBlocks # <<>>
        /\ LegacyLineIn(out) <=> report.SummaryBlocks = <<>>

\* A report with summary blocks, a project and a tag rendered: the project
\* and the tag are not printed.
C18_Witness ==
    /\ out # <<>>
    /\ report.SummaryBlocks # <<>>
    /\ report.Project # <<>>
    /\ DOMAIN report.Tags # {}

\* ------------------------------------------------------------------------
\* The rows of a table
\* ------------------------------------------------------------------------
\* The places of the column bar in a line of the box.
Bars(line) == {i \in 2..(Len(line) - 1) : line[i] = 9474}

\* The cells of a table line of the box: the text between the border and the
\* bars, without the padding.
CellsOf(line) ==
    LET edge(k) == IF k = 0 THEN 1
                   ELSE IF k > Cardinality(Bars(line)) THEN Len(line)
                   ELSE CHOOSE i \in Bars(line) : Cardinality({j \in Bars(line) : j < i}) = k - 1
    IN  [k \in 1..(Cardinality(Bars(line)) + 1) |->
            SelectSeq(SubSeq(line, edge(k - 1) + 1, edge(k) - 1), LAMBDA c : c # 32)]

\* The first n cells of a row, empty cells standing in for the missing ones.
Padded(row, n) == [i \in 1..n |-> IF i <= Len(row) THEN row[i] ELSE <<>>]

\* A row of a Markdown table with these cells.
RowMD(cells) == <<124, 32>> \o Join(cells, <<32, 124, 32>>) \o <<32, 124, 10>>

\* The Markdown table with these data rows under the header and the rule.
TableMD(headers, rows) ==
    RowMD(headers) \o RowMD([i \in 1..Len(headers) |-> <<45, 45, 45>>])
        \o Concat([k \in 1..Len(rows) |-> RowMD(rows[k])])

\* The box prints every data row of the table with as many cells as there are
\* headers, the missing cells empty.
BoxRowsPadded ==
    out # <<>> /\ report.SummaryBlocks # <<>> =>
        LET block == report.SummaryBlocks[1]
        IN  /\ Len(out) = 3 + (2 + Len(block.Rows)) + 1 + 1 + 3
            /\ \A k \in 1..Len(block.Rows) :
                   CellsOf(out[5 + k]) = Padded(block.Rows[k], Len(block.Headers))

\* C19 (as claimed): both renderers print every data row of a table with as
\* many cells as there are headers, the missing trailing cells of a short row
\* as empty strings.
C19_ShortRowsPadded ==
    /\ BoxRowsPadded
    /\ narr # <<>> /\ report.SummaryBlocks # <<>> =>
           LET block == report.SummaryBlocks[1]
           IN  Contains(narr, <<10>> \o TableMD(block.Headers,
                                  [k \in 1..Len(block.Rows) |->
                                      Padded(block.Rows[k], Max(Len(block.Headers), Len(block.Rows[k])))]))

\* C19 (amended): the box renderer prints every data row of a table with as
\* many cells as there are headers, the missing trailing cells of a short row
\* as empty strings; the narrative renderer prints every data row with the
\* cells the row has, so a short row stays short.
C19_TableRows ==
    /\ BoxRowsPadded
    /\ narr # <<>> /\ report.SummaryBlocks # <<>> =>
           LET block == report.SummaryBlocks[1]
           IN  Contains(narr, <<10>> \o TableMD(block.Headers, block.Rows))

\* A table with two headers and a row of one cell, rendered by both renderers.
C19_Witness ==
    /\ out # <<>> /\ narr # <<>>
    /\ report.SummaryBlocks # <<>>
    /\ Len(report.SummaryBlocks[1].Headers) = 2
    /\ \E k \in 1..Len(report.SummaryBlocks[1].Rows) : Len(report.SummaryBlocks[1].Rows[k]) = 1

\* ------------------------------------------------------------------------
\* Status words
\* ------------------------------------------------------------------------
\* The word of the narrative for a status: <<80, 65, 83, 83>>, <<87, 65, 82, 78, 73, 78, 71>>, <<70, 65, 73, 76>>, SKIP.
StatusWord(s) ==
    CASE s = StatusGo   -> <<80, 65, 83, 83>>
      [] s = StatusWarn -> <<87, 65, 82, 78, 73, 78, 71>>
      [] s = StatusNoGo -> <<70, 65, 73, 76>>
      [] s = StatusSkip -> <<83, 75, 73, 80>>

\* The metric blocks among these blocks.
Metrics(blocks) == {blocks[i] : i \in {j \in 1..Len(blocks) : blocks[j].Type = ContentBlockMetric}}

\* The metric blocks of the report and its sections.
AllMetrics ==
    Metrics(report.SummaryBlocks) \cup Metrics(report.FooterBlocks)
        \cup UNION {Metrics(teams[i].ContentBlocks) : i \in 1..Len(teams)}

TeamsOf(h) == SubSeq(h.arr, 1, Min(h.len, Len(h.arr)))

\* What the call of g gives when it runs alone: the box of the sorted sections.
AloneOutput(g) == renderBox(TeamReport, SortedTeams(given[of[g]]), <<>>)

\* g is between its first read of r.Teams and its last.
InCall(g) == at[g] \notin {"len", "done", "panic"}

\* C15: goroutines that render two reports never interfere: neither call
\* panics, each writes the lines and leaves the section order that it gives
\* when it runs alone, and a report that no call was given stays as it was:
\* r.Teams of the call's own report is all a call writes of what it shares.
C15_DistinctReportsAlone ==
    mem # <<>> =>
        /\ of[1] # of[2] =>
               \A g \in Callers :
                   /\ at[g] # "panic"
                   /\ at[g] = "done" =>
                          /\ outs[g] = AloneOutput(g)
                          /\ TeamsOf(mem[of[g]]) = SortedTeams(given[of[g]])
                   /\ at[g] \in {"len", "idToTeam", "inDegree", "downstream", "queue", "kahn", "remaining"} =>
                          mem[of[g]] = Slice(given[of[g]], Len(given[of[g]]))
        /\ \A r \in 1..2 : (\A g \in Callers : of[g] # r) => mem[r] = Slice(given[r], Len(given[r]))

\* Two calls on one report of distinct ids, the second storing r.Teams while
\* the first was in its loops: the first call has panicked, the second has
\* returned.
C15_Witness ==
    /\ mem # <<>>
    /\ of[1] = of[2]
    /\ DistinctIds(given[1])
    /\ at[1] = "panic"
    /\ at[2] = "done"

\* ------------------------------------------------------------------------
\* Properties of mas render
\* ------------------------------------------------------------------------
\* The operations of the invocation that have failed.
Failures == {log[i].op : i \in {k \in 1..Len(log) : ~log[k].ok}}

\* The renderings the invocation has completed.
Renderings == {i \in 1..Len(log) : log[i].op = "render" /\ log[i].ok}

\* C21: mas render exits with code 0 when rendering succeeds (a format was
\* rendered and no operation failed), and with a nonzero code when reading the
\* input, the schema validation asked for with --validate, parsing the report
\* or rendering has failed.
C21_ExitCodes ==
    step = "exit" =>
        /\ (Failures = {} /\ Renderings # {}) => code = 0
        /\ (Failures \cap {"read", "validate", "parse", "render"} # {}) => code # 0
        /\ (\E i \in 1..Len(log) : log[i].op = "validate") <=> (flags.validate /\ log[1].ok /\ data # "")

\* An invocation with --validate has exited with code 1 after the validation
\* of an input that is JSON but leaves out required fields has failed.
C21_Witness ==
    /\ step = "exit"
    /\ flags.validate
    /\ data = "partial"
    /\ Failures = {"validate"}
    /\ code = 1

\* C30 (as claimed): an invocation that exits with code 0 has rendered at least
\* one format and has written at most one format to standard output, whatever
\* the values of --format, --box-out and --narrative-out.
C30_RendersOnceToStdout ==
    (step = "exit" /\ code = 0) =>
        /\ Renderings # {}
        /\ Cardinality({i \in Renderings : log[i].to = "stdout"}) <= 1

\* ------------------------------------------------------------------------
\* Dependency levels
\* ------------------------------------------------------------------------
\* The level of an id of an acyclic ts: 0 without an existing dependency, else
\* one more than the highest level of its dependencies.
RECURSIVE Level(_, _)
Level(ts, id) ==
    LET ls == {Level(ts, d) : d \in DepIds(ts, id)}
    IN  IF ls = {} THEN 0 ELSE 1 + (CHOOSE l \in ls : \A m \in ls : m <= l)

\* The sections of the output are grouped by level, lower levels first.
GroupedByLevel ==
    \A i, j \in 1..Len(teams) :
        i < j => Level(input, teams[i].ID) <= Level(input, teams[j].ID)

\* C22 (as claimed): after SortByDAG on an acyclic input (distinct ids) the
\* sections are grouped by dependency level, lower levels first, and any two
\* sections at the same level appear in ascending id order.
C22_LevelsAlphabetical ==
    (pc = "done" /\ DistinctIds(input) /\ Acyclic(input)) =>
        /\ GroupedByLevel
        /\ \A i, j \in 1..Len(teams) :
               (i < j /\ Level(input, teams[i].ID) = Level(input, teams[j].ID))
                   => StrLess(teams[i].ID, teams[j].ID)

\* The part of C22 that holds: the output is grouped by level.
C22_Grouped == (pc = "done" /\ DistinctIds(input) /\ Acyclic(input)) => GroupedByLevel

\* ------------------------------------------------------------------------
\* Termination of SortByDAG
\* ------------------------------------------------------------------------
\* A depends_on list of ts names its own section, an id twice, or an id that
\* no section has.
SelfDep(ts) == \E i \in 1..Len(ts) : ts[i].ID \in Range(ts[i].DependsOn)

RepeatedDep(ts) ==
    \E i \in 1..Len(ts) : Cardinality(Range(ts[i].DependsOn)) < Len(ts[i].DependsOn)

UnknownDep(ts) == \E i \in 1..Len(ts) : ~(Range(ts[i].DependsOn) \subseteq Range(IDsOf(ts)))

\* Every read of the queue loop finds what it reads: the dequeued id has its
\* section in idToTeam and every downstream id its count in inDegree.
LoopReadsDefined ==
    (pc = "sort" /\ kahn.queue # <<>>) =>
        /\ Head(kahn.queue) \in DOMAIN kahn.idToTeam
        /\ kahn.idToTeam[Head(kahn.queue)] \in 1..Len(teams)
        /\ Range(Get(kahn.downstream, Head(kahn.queue), <<>>)) \subseteq DOMAIN kahn.inDegree

\* C23: SortByDAG terminates and returns normally on every input: a call that
\* has begun reaches its return, and no iteration of the queue loop reads a nil
\* section or a missing count, whatever cycles, self-dependencies, repeated
\* depends_on entries, repeated ids and unknown ids the input holds.
C23_Terminates == [](LoopReadsDefined) /\ ((pc = "sort") ~> (pc = "done"))

\* A call run step by step has returned on an input with a section that
\* depends on itself (a cycle), a repeated id, a repeated depends_on entry and
\* an unknown id.
C23_Witness ==
    /\ pc = "done"
    /\ kahn = <<>>
    /\ Len(input) > 1
    /\ SelfDep(input) /\ ~Acyclic(input)
    /\ ~DistinctIds(input)
    /\ RepeatedDep(input)
    /\ UnknownDep(input)

\* ------------------------------------------------------------------------
\* The task line of the box
\* ------------------------------------------------------------------------
\* The task results of the rendered sections.
RenderedTasks == UNION {Range(teams[i].Tasks) : i \in 1..Len(teams)}

\* C24 (as claimed): every task line of the box fits the line budget: the line
\* is written, and with its two borders it is boxWidth + 2 columns wide, so
\* its text does not run past the interior of the box, whatever the lengths of
\* the id, the severity and the detail.
C24_TaskLineFits ==
    (pc = "done" /\ out # <<>>) =>
        \A task \in RenderedTasks :
            /\ taskLine(task) \in Range(out)
            /\ visualLength(taskLine(task)) = boxWidth + 2

\* ------------------------------------------------------------------------
\* Word wrap
\* ------------------------------------------------------------------------
RECURSIVE TrimRight(_)
TrimRight(s) == IF s # <<>> /\ s[Len(s)] = 32 THEN TrimRight(SubSeq(s, 1, Len(s) - 1)) ELSE s

\* The text of a padded line: what stands between the border with its space
\* and the padding before the other border.
LineText(line) == TrimRight(SubSeq(line, 3, Len(line) - 1))

\* The texts of the lines of the last wrapText call.
WrapTexts == [k \in 1..Len(wrap.lines) |-> LineText(wrap.lines[k])]

RECURSIVE Flatten(_)
Flatten(ss) == IF ss = <<>> THEN <<>> ELSE Head(ss) \o Flatten(Tail(ss))

TopLines ==
    IF report.SummaryBlocks # <<>> THEN Len(renderBlocks(report.SummaryBlocks))
    ELSE 2 + (IF DOMAIN report.Tags # {} THEN 1 + Cardinality(DOMAIN report.Tags) ELSE 0)

\* The line of the phase: after the border, the title, a separator, the top
\* block and its separator.
PhaseAt == 3 + TopLines + 2

\* The line of the separator that opens the i-th section.
SectionAt(i) == PhaseAt + (SectionLines(teams, 1) - SectionLines(teams, i)) + 1

\* The line of the separator that opens the footer blocks (when there are any).
FooterAt == PhaseAt + SectionLines(teams, 1) + 1

\* C26: the box comes in a fixed order.  The top border is the first line,
\* then the centered title, a separator, the summary blocks or the legacy
\* block, a separator, the phase line; then for every section, in the order
\* SortByDAG gives, a separator, the header line, a line for every task in the
\* order of the tasks, and the content blocks; then the footer blocks (after a
\* separator) when there are any; then the closing separator, the centered
\* final message, and the bottom border as the last line.
C26_FixedOrder ==
    (pc = "done" /\ out # <<>>) =>
        LET n == Len(out)
        IN  /\ teams = SortedTeams(input)
            /\ n = FooterAt - 1
                   + (IF report.FooterBlocks # <<>>
                      THEN 1 + Len(renderBlocks(report.FooterBlocks)) ELSE 0) + 3
            /\ out[1] = header
            /\ out[2] = centerLine(EffectiveTitle(report))
            /\ out[3] = separator
            /\ IF report.SummaryBlocks # <<>>
               THEN SubSeq(out, 4, 3 + TopLines) = renderBlocks(report.SummaryBlocks)
               ELSE /\ StartsWith(out[4], <<9553, 32, 80, 114, 111, 106, 101, 99, 116, 58, 32>>)
                    /\ StartsWith(out[5], <<9553, 32, 84, 97, 114, 103, 101, 116, 58, 32, 32>>)
            /\ out[PhaseAt - 1] = separator
            /\ out[PhaseAt] = paddedLine(report.Phase)
            /\ \A i \in 1..Len(teams) :
                   LET at0 == SectionAt(i)
                       t   == teams[i]
                   IN  /\ out[at0] = separator
                       /\ out[at0 + 1] = teamHeader(t)
                       /\ \A k \in 1..Len(t.Tasks) : out[at0 + 1 + k] = taskLine(t.Tasks[k])
                       /\ t.ContentBlocks # <<>> =>
                              SubSeq(out, at0 + 2 + Len(t.Tasks),
                                     at0 + SectionLines(teams, i) - SectionLines(teams, i + 1) - 1)
                                  = renderBlocks(t.ContentBlocks)
            /\ report.FooterBlocks # <<>> =>
                   /\ out[FooterAt] = separator
                   /\ SubSeq(out, FooterAt + 1, n - 3) = renderBlocks(report.FooterBlocks)
            /\ out[n - 2] = separator
            /\ out[n - 1] = centerLine(FinalMessage(report, teams))
            /\ out[n] = footer

\* A box has been written for a report with a section that has a task, and
\* with a footer block.
C26_Witness ==
    /\ pc = "done" /\ out # <<>>
    /\ \E i \in 1..Len(teams) : teams[i].Tasks # <<>>
    /\ report.FooterBlocks # <<>>

\* A box has been written for a report with two sections, the second before
\* the first it depends on, one of them with a content block.
C26_WitnessSections ==
    /\ pc = "done" /\ out # <<>>
    /\ Len(teams) = 2
    /\ teams # input
    /\ \E i \in 1..Len(teams) : teams[i].ContentBlocks # <<>>

\* ------------------------------------------------------------------------
\* SortByDAG on sections without dependencies
\* ------------------------------------------------------------------------
\* No section of ts declares a dependency.
NoDependencies(ts) == \A i \in 1..Len(ts) : ts[i].DependsOn = <<>>

TagLine(key) == paddedLine(<<32, 32>> \o key \o <<58, 32>> \o report.Tags[key])

\* The keys of the tags smaller than key.
KeysBelow(key) == {k \in DOMAIN report.Tags : StrLess(k, key)}

\* C28: in the legacy block of the box the tags come one per line in ascending
\* key order (the line of a key stands after the "Tags:" line and the lines of
\* the smaller keys), so the output is the same for every order in which the
\* tag map yields its keys.
C28_TagsAscending ==
    (pc = "done" /\ out # <<>> /\ report.SummaryBlocks = <<>> /\ DOMAIN report.Tags # {}) =>
        /\ out[6] = paddedLine(<<84, 97, 103, 115, 58>>)
        /\ \A key \in DOMAIN report.Tags : out[6 + Cardinality(KeysBelow(key)) + 1] = TagLine(key)
        /\ out[6 + Cardinality(DOMAIN report.Tags) + 1] = separator
        /\ \A keys \in KeyOrders(DOMAIN report.Tags) : out = renderBox(report, teams, keys)

\* A box has been written for a report with three tags, which the map yields
\* in any of six orders.
C28_Witness ==
    /\ pc = "done" /\ out # <<>>
    /\ report.SummaryBlocks = <<>>
    /\ Cardinality(DOMAIN report.Tags) = 3
    /\ Cardinality(KeyOrders(DOMAIN report.Tags)) = 6

\* ------------------------------------------------------------------------
\* The verdict in both formats
\* ------------------------------------------------------------------------
\* The line "**Overall Status**: FAIL" of the narrative.
OverallFail ==
    <<10, 42, 42, 79, 118, 101, 114, 97, 108, 108, 32, 83, 116, 97, 116, 117, 115, 42, 42, 58, 32>>
        \o <<70, 65, 73, 76, 10>>

\* C29 (as claimed): a report written in both formats has the same verdict in
\* both: the final message of the box is the NO-GO message exactly when the
\* narrative has the line "**Overall Status**: FAIL", which is exactly when
\* the stored status of the report is NO-GO.
C29_SameVerdict ==
    (out # <<>> /\ narr # <<>>) =>
        /\ (FinalText(out) = NoGoMessage(report.Version)) <=> Contains(narr, OverallFail)
        /\ Contains(narr, OverallFail) <=> (report.Status = StatusNoGo)

\* What holds of C29: the narrative follows the stored status, the box the
\* statuses of the sections it printed.
C29_EachFormat ==
    (out # <<>> /\ narr # <<>>) =>
        /\ Contains(narr, OverallFail) <=> (report.Status = StatusNoGo)
        /\ (FinalText(out) = NoGoMessage(report.Version))
               <=> (\E i \in 1..Len(teams) : teams[i].Status = StatusNoGo)

====
